---- MODULE Spec2Model ----
(***************************************************************************)
(* A model of the GraphML document builder of package graphml              *)
(* (src/graphml/graphml.go): the key registry, the attribute engine that   *)
(* turns attribute maps into Data records and back, and the graph element  *)
(* model (graphs, nodes, edges).                                           *)
(*                                                                         *)
(* Pointers are modelled by what identifies the object: a *Key by the      *)
(* number of its allocation (field ptr), a *Node / *Edge held in a graph's *)
(* index by its slot in the graph's Nodes / Edges list.  A Go value passed *)
(* as interface{} is the record [kind, str]: its reflect.Kind and the text *)
(* fmt.Sprint prints for it.                                               *)
(***************************************************************************)
EXTENDS Integers, Sequences, FiniteSets, TLC

VARIABLES
    Keys,             \* GraphML.Keys: the ordered list of *Key
    keysByIdentifier, \* GraphML.keysByIdentifier: keyIdentifier(name, target) -> *Key
    keysById,         \* GraphML.keysById: Key.ID -> *Key
    Data,             \* GraphML.Data: the Data records of the root element
    Graphs,           \* GraphML.Graphs: the ordered list of *Graph
    keyTypeDefault,   \* GraphML.keyTypeDefault
    allocated,        \* number of Key objects registered so far (gives each *Key its identity)
    last              \* the last call made on the document and what it returned

vars == <<Keys, keysByIdentifier, keysById, Data, Graphs, keyTypeDefault, allocated, last>>

(***************************************************************************)
(* Bounds of the model.                                                    *)
(***************************************************************************)
MaxAllocated == 2       \* keys registered in one run of Spec
MaxRegistered == 3      \* keys registered in one run of SpecRemoval
MaxAttributeKeys == 2   \* keys registered in one run of SpecAttributes
MaxDefaultKeys == 2     \* keys registered in one run of SpecDefaults
MaxReuseKeys == 3       \* keys registered in one run of SpecReuse
MaxGivenKeys == 2       \* keys registered in one run of SpecGiven
MaxRoundTripKeys == 2   \* keys registered in one run of SpecRoundTrip
MaxKeysRead == 2        \* keys read in one run of SpecDecode
MaxImplicitKeys == 2    \* keys registered in one run of SpecImplicit
MaxElements == 5        \* graphs, nodes and edges in a document of SpecEdges

(***************************************************************************)
(* Constants of the package.                                               *)
(***************************************************************************)
KeyForGraphML == "graphml"
KeyForGraph == "graph"
KeyForNode == "node"
KeyForEdge == "edge"
KeyForAll == "all"

BooleanType == "boolean"
IntType == "int"
LongType == "long"
FloatType == "float"
DoubleType == "double"
StringType == "string"

EdgeDirectionDefault == 0
EdgeDirectionDirected == 1
EdgeDirectionUndirected == 2

edgeDirectionDirected == "directed"
edgeDirectionUndirected == "undirected"

\* var NotAValue interface{} = nil
NotAValue == [kind |-> "Invalid", str |-> "<nil>"]

\* The errors the package returns (errors.New), by their message.
NoError == ""
ErrKeyRegistered == "key with given name already registered"
ErrKeyNotFound == "key not found"
ErrNoEdgeDirection == "default edge direction must be provided"
ErrEdgeExists == "edge already added to the graph"
ErrEmptyAttribute == "empty attribute without default value"
ErrUnsupportedType == "unsupported data type for key"
ErrWrongBoolean == "default value has wrong data type when boolean expected"
ErrWrongInt == "default value has wrong data type when int/long expected"
ErrWrongFloat == "default value has wrong data type when float/double expected"
ErrWrongString == "default value has wrong data type when string expected"
ErrDanglingKey == "failed to find attribute name/type by id"
ErrNoValueNoDefault == "data has no value and key has no default value"
ErrParse == "strconv: parsing failed"
ErrDefaultParse == "could not parse default value for key"
\* A run-time panic of the Go runtime (nil dereference), not an error value.
Panic == "panic: nil pointer dereference"
\* The end of a run whose calls nest without end.
StackOverflow == "fatal error: stack overflow"

\* The nil *Key.
NilKey == [ptr |-> -1, ID |-> "", Target |-> "", Name |-> "", KeyType |-> "", DefaultValue |-> ""]

(***************************************************************************)
(* Go maps: a function whose domain is the set of keys present.            *)
(***************************************************************************)
EmptyMap == [x \in {} |-> x]
MapPut(m, k, v) == [x \in (DOMAIN m) \cup {k} |-> IF x = k THEN v ELSE m[x]]
MapDelete(m, k) == [x \in (DOMAIN m) \ {k} |-> m[x]]

\* append(s[:i], s[i+1:]...) for the 1-based position i.
RemoveAt(s, i) == [j \in 1..(Len(s) - 1) |-> IF j < i THEN s[j] ELSE s[j + 1]]

(***************************************************************************)
(* Value type system.                                                      *)
(***************************************************************************)
\* returns standard edge identifier based on provided iDs of connected nodes
edgeIdentifier(source, target) == source \o "<->" \o target

\* returns standard key identifier based on provided name and target
keyIdentifier(name, target) == name \o "_for_" \o target

\* Returns type name for a given kind
typeNameForKind(kind) ==
    IF kind = "Bool" THEN [type |-> BooleanType, err |-> NoError]
    ELSE IF kind \in {"Int", "Int8", "Int16", "Int32", "Uint8", "Uint16"}
        THEN [type |-> IntType, err |-> NoError]
    ELSE IF kind \in {"Int64", "Uint32"} THEN [type |-> LongType, err |-> NoError]
    ELSE IF kind = "Float32" THEN [type |-> FloatType, err |-> NoError]
    ELSE IF kind = "Float64" THEN [type |-> DoubleType, err |-> NoError]
    ELSE IF kind = "String" THEN [type |-> StringType, err |-> NoError]
    ELSE [type |-> "unsupported", err |-> ErrUnsupportedType]

\* The result of a failed and of a successful conversion.
unsupportedValue(e) == [str |-> "unsupported", err |-> e]
printedValue(value) == [str |-> value.str, err |-> NoError]

\* stringValueIfSupported, once typeNameForKind(reflect.TypeOf(value).Kind())
\* is known as def.
stringValueOfKind(value, keyType, def) ==
    IF keyType = BooleanType
        THEN IF value.kind # "Bool" THEN unsupportedValue(ErrWrongBoolean) ELSE printedValue(value)
    ELSE IF keyType \in {IntType, LongType, FloatType, DoubleType, StringType} /\ def.err # NoError
        THEN unsupportedValue(def.err)
    ELSE IF keyType \in {IntType, LongType}
        THEN IF ~(def.type = IntType \/ def.type = LongType)
                THEN unsupportedValue(ErrWrongInt) ELSE printedValue(value)
    ELSE IF keyType \in {FloatType, DoubleType}
        THEN IF ~(def.type = FloatType \/ def.type = DoubleType)
                THEN unsupportedValue(ErrWrongFloat) ELSE printedValue(value)
    ELSE IF keyType = StringType
        THEN IF def.type # StringType THEN unsupportedValue(ErrWrongString) ELSE printedValue(value)
    ELSE printedValue(value)

\* Converts provided value to string if it's supported by this keyType
stringValueIfSupported(value, keyType) ==
    stringValueOfKind(value, keyType, typeNameForKind(value.kind))

(***************************************************************************)
(* Key registry.  The operators take the document as the record gml of    *)
(* its fields and return the document as the call leaves it.               *)
(***************************************************************************)
\* GetKey looks for registered keys with specified name for a given target element.
GetKey(gml, name, target) ==
    IF keyIdentifier(name, target) \in DOMAIN gml.keysByIdentifier
        THEN gml.keysByIdentifier[keyIdentifier(name, target)]
    ELSE IF keyIdentifier(name, KeyForAll) \in DOMAIN gml.keysByIdentifier
        THEN gml.keysByIdentifier[keyIdentifier(name, KeyForAll)]
    ELSE NilKey

\* addKey with the bug of putting the key in front of the key list.
addKeyInFront(gml, key) ==
    [gml EXCEPT !.Keys = <<key>> \o gml.Keys,
                !.keysByIdentifier = MapPut(gml.keysByIdentifier, keyIdentifier(key.Name, key.Target), key),
                !.keysById = MapPut(gml.keysById, key.ID, key),
                !.allocated = gml.allocated + 1]

\* appends given key
addKey(gml, key) ==
    [gml EXCEPT !.Keys = Append(gml.Keys, key),
                !.keysByIdentifier = MapPut(gml.keysByIdentifier, keyIdentifier(key.Name, key.Target), key),
                !.keysById = MapPut(gml.keysById, key.ID, key),
                !.allocated = gml.allocated + 1]

\* fmt.Sprintf("d%d", count)
keyID(count) == "d" \o ToString(count)

\* What a call returns: the document as the call leaves it, the *Key or the
\* id of the element it returns (NilKey, "": nil), and the error.
Returned(gml, key, ret, err) == [gml |-> gml, key |-> key, ret |-> ret, err |-> err]

\* RegisterKey after the duplicate test: tn is the key type typeNameForKind
\* gives, dv the converted default value.
registerNewKey(gml, target, name, tn, dv) ==
    IF tn.err # NoError THEN Returned(gml, NilKey, "", tn.err)
    ELSE IF dv.err # NoError THEN Returned(gml, NilKey, "", dv.err)
    ELSE Returned(addKey(gml, [ptr |-> gml.allocated, ID |-> keyID(Len(gml.Keys)),
                               Target |-> target, Name |-> name, KeyType |-> tn.type,
                               DefaultValue |-> dv.str]),
                  [ptr |-> gml.allocated, ID |-> keyID(Len(gml.Keys)),
                   Target |-> target, Name |-> name, KeyType |-> tn.type,
                   DefaultValue |-> dv.str],
                  "", NoError)

\* The default value RegisterKey stores for a key of type keyType.
storedDefault(defaultValue, keyType) ==
    IF defaultValue # NotAValue THEN stringValueIfSupported(defaultValue, keyType)
    ELSE [str |-> "", err |-> NoError]

\* RegisterKey with the bug of testing the exact identifier only.
RegisterKeyExactOnly(gml, target, name, keyType, defaultValue) ==
    IF keyIdentifier(name, target) \in DOMAIN gml.keysByIdentifier
        THEN Returned(gml, NilKey, "", ErrKeyRegistered)
    ELSE registerNewKey(gml, target, name, typeNameForKind(keyType),
                        storedDefault(defaultValue, typeNameForKind(keyType).type))

\* RegisterKey registers data function with GraphML instance
RegisterKey(gml, target, name, keyType, defaultValue) ==
    IF GetKey(gml, name, target) # NilKey THEN Returned(gml, NilKey, "", ErrKeyRegistered)
    ELSE registerNewKey(gml, target, name, typeNameForKind(keyType),
                        storedDefault(defaultValue, typeNameForKind(keyType).type))

\* removeAttributeFromData removes the attribute associated with the given key ID
\* from the given data: the first record whose Key is key, and only that one.
removeAttributeFromData(data, key) ==
    IF \E i \in 1..Len(data) : data[i].Key = key
        THEN RemoveAt(data, CHOOSE i \in 1..Len(data) :
                /\ data[i].Key = key
                /\ \A j \in 1..(i - 1) : data[j].Key # key)
        ELSE data

\* RemoveAttribute removes the attribute associated with the given key ID
\* from the data of this GraphML, of this graph, of this node, of this edge.
RemoveAttributeGraphML(gml, key) ==
    [gml EXCEPT !.Data = removeAttributeFromData(gml.Data, key)]
RemoveAttributeGraph(gml, gr, key) ==
    [gml EXCEPT !.Graphs[gr].Data = removeAttributeFromData(gml.Graphs[gr].Data, key)]
RemoveAttributeNode(gml, gr, n, key) ==
    [gml EXCEPT !.Graphs[gr].Nodes[n].Data = removeAttributeFromData(gml.Graphs[gr].Nodes[n].Data, key)]
RemoveAttributeEdge(gml, gr, e, key) ==
    [gml EXCEPT !.Graphs[gr].Edges[e].Data = removeAttributeFromData(gml.Graphs[gr].Edges[e].Data, key)]

\* The body of RemoveKey's loop over gml.Graphs, for one graph.
removeKeyFromGraph(graph, key) ==
    [graph EXCEPT
        !.Data = IF key.Target = KeyForAll \/ key.Target = KeyForGraph
                    THEN removeAttributeFromData(graph.Data, key.ID) ELSE graph.Data,
        !.Nodes = IF key.Target = KeyForAll \/ key.Target = KeyForNode
                    THEN [n \in 1..Len(graph.Nodes) |->
                            [graph.Nodes[n] EXCEPT !.Data = removeAttributeFromData(graph.Nodes[n].Data, key.ID)]]
                    ELSE graph.Nodes,
        !.Edges = IF key.Target = KeyForAll \/ key.Target = KeyForEdge
                    THEN [e \in 1..Len(graph.Edges) |->
                            [graph.Edges[e] EXCEPT !.Data = removeAttributeFromData(graph.Edges[e].Data, key.ID)]]
                    ELSE graph.Edges]

\* removeKeyAt with the bug of leaving the key in the index by identifier.
removeKeyAtKeepingIdentifier(gml, key, i) ==
    [gml EXCEPT
        !.Keys = RemoveAt(gml.Keys, i),
        !.keysById = MapDelete(gml.keysById, key.ID),
        !.Data = IF key.Target = KeyForAll \/ key.Target = KeyForGraphML
                    THEN removeAttributeFromData(gml.Data, key.ID) ELSE gml.Data,
        !.Graphs = IF key.Target = KeyForGraphML THEN gml.Graphs
                   ELSE [g \in 1..Len(gml.Graphs) |-> removeKeyFromGraph(gml.Graphs[g], key)]]

\* RemoveKey once the key is found at position i of gml.Keys.
removeKeyAt(gml, key, i) ==
    [gml EXCEPT
        !.Keys = RemoveAt(gml.Keys, i),
        !.keysById = MapDelete(gml.keysById, key.ID),
        !.keysByIdentifier = MapDelete(gml.keysByIdentifier, keyIdentifier(key.Name, key.Target)),
        !.Data = IF key.Target = KeyForAll \/ key.Target = KeyForGraphML
                    THEN removeAttributeFromData(gml.Data, key.ID) ELSE gml.Data,
        !.Graphs = IF key.Target = KeyForGraphML THEN gml.Graphs
                   ELSE [g \in 1..Len(gml.Graphs) |-> removeKeyFromGraph(gml.Graphs[g], key)]]

\* RemoveKey with the bug of not testing found: the loop over gml.Keys ends
\* with the index of the last key, which is removed in place of the key.
RemoveKeyUnchecked(gml, key) ==
    IF gml.Keys = <<>> THEN Returned(gml, NilKey, "", Panic)
    ELSE IF ~(\E i \in 1..Len(gml.Keys) : gml.Keys[i].ptr = key.ptr)
        THEN Returned(removeKeyAt(gml, key, Len(gml.Keys)), NilKey, "", NoError)
    ELSE Returned(removeKeyAt(gml, key, CHOOSE i \in 1..Len(gml.Keys) : gml.Keys[i].ptr = key.ptr),
                  NilKey, "", NoError)

\* RemoveKey removes a key from the GraphML and all the associated attributes
\* in all the target elements.  key is a *Key: it is found by pointer equality.
RemoveKey(gml, key) ==
    IF ~(\E i \in 1..Len(gml.Keys) : gml.Keys[i].ptr = key.ptr)
        THEN Returned(gml, NilKey, "", ErrKeyNotFound)
    ELSE Returned(removeKeyAt(gml, key, CHOOSE i \in 1..Len(gml.Keys) : gml.Keys[i].ptr = key.ptr),
                  NilKey, "", NoError)

(***************************************************************************)
(* Attribute engine, encode path.                                          *)
(***************************************************************************)
\* A Data record: its ID (never set by the package), the ID of its key and its
\* value.  madeFor is not a field of Data: it records the *Key the record was
\* created for, which the claims speak about.
newData(key, value) == [ID |-> "", Key |-> key.ID, Value |-> value, madeFor |-> key.ptr]

\* Creates data object with specified name, value and for provided Key.
\* When stringValueIfSupported fails, control leaves the if statement and
\* reaches the final "return data, nil": data.Value holds what the failed
\* conversion returned and no error is reported.
createDataWithKey(value, key) ==
    IF value # NotAValue
        THEN [data |-> newData(key, stringValueIfSupported(value, key.KeyType).str), err |-> NoError]
    ELSE IF key.Target = KeyForAll /\ Len(key.DefaultValue) > 0
        THEN [data |-> newData(key, key.DefaultValue), err |-> NoError]
    ELSE [data |-> newData(NilKey, ""), err |-> ErrEmptyAttribute]

\* The order of Go strings (sort.Strings) on the attribute names of the model.
NameRank == [a |-> 1, b |-> 2, c |-> 3]
StringLess(x, y) == NameRank[x] < NameRank[y]

\* sort.Strings(names)
RECURSIVE SortStrings(_)
SortStrings(names) ==
    IF names = {} THEN <<>>
    ELSE LET first == CHOOSE x \in names : \A y \in names \ {x} : StringLess(x, y)
         IN  <<first>> \o SortStrings(names \ {first})

\* The orders in which `for key := range attributes` can append the names:
\* the iteration order of a Go map is not specified.
RangeOrders(attributes) ==
    {names \in [1..Cardinality(DOMAIN attributes) -> DOMAIN attributes] :
        \A i, j \in 1..Cardinality(DOMAIN attributes) : i # j => names[i] # names[j]}

\* sortStrings with the bug of leaving the names in the order of the range.
sortStringsOmitted(names) == names

\* sort.Strings(names), on the names in the order they were appended.
RECURSIVE sortStrings(_)
insertString(sorted, x) ==
    SelectSeq(sorted, LAMBDA y : StringLess(y, x)) \o <<x>> \o SelectSeq(sorted, LAMBDA y : ~StringLess(y, x))
sortStrings(names) ==
    IF names = <<>> THEN <<>> ELSE insertString(sortStrings(Tail(names)), Head(names))

\* What createDataAttributes returns: the document, the data list, the error.
DataReturned(gml, data, err) == [gml |-> gml, data |-> data, err |-> err]

\* resolveKey with the bug of registering the key for all elements.
resolveKeyForAll(gml, target, name, val, keyFunc) ==
    IF keyFunc # NilKey THEN Returned(gml, keyFunc, "", NoError)
    ELSE IF val = NotAValue THEN Returned(gml, NilKey, "", Panic)
    ELSE RegisterKey(gml, KeyForAll, name, val.kind, NotAValue)

\* The key createDataAttributes uses for the attribute name with value val:
\* the key GetKey found (keyFunc), or a key it registers.
resolveKey(gml, target, name, val, keyFunc) ==
    IF keyFunc # NilKey THEN Returned(gml, keyFunc, "", NoError)
    \* reflect.TypeOf(nil) is nil: calling Kind() on it panics
    ELSE IF val = NotAValue THEN Returned(gml, NilKey, "", Panic)
    ELSE RegisterKey(gml, target, name, val.kind, NotAValue)

\* The loop of createDataAttributes over the sorted names.
RECURSIVE createDataLoop(_, _, _, _, _)

\* One round of the loop once the Data record d is made.
createDataAppend(gml, names, attributes, target, data, d) ==
    IF d.err # NoError THEN DataReturned(gml, <<>>, d.err)
    ELSE createDataLoop(gml, Tail(names), attributes, target, Append(data, d.data))

\* One round of the loop once the key is resolved (reg).
createDataStep(names, attributes, target, data, reg) ==
    IF reg.err # NoError THEN DataReturned(reg.gml, <<>>, reg.err)
    ELSE createDataAppend(reg.gml, names, attributes, target, data,
                          createDataWithKey(attributes[Head(names)], reg.key))

createDataLoop(gml, names, attributes, target, data) ==
    IF names = <<>> THEN DataReturned(gml, data, NoError)
    ELSE createDataStep(names, attributes, target, data,
            resolveKey(gml, target, Head(names), attributes[Head(names)],
                       GetKey(gml, Head(names), target)))

\* Creates data-functions from given attributes and appends definitions of
\* created functions to the provided data list.
createDataAttributes(gml, attributes, target) ==
    createDataLoop(gml, SortStrings(DOMAIN attributes), attributes, target, <<>>)

(***************************************************************************)
(* Graph element model.                                                    *)
(***************************************************************************)
\* fmt.Sprintf("g%d", count), fmt.Sprintf("n%d", count), fmt.Sprintf("e%d", count)
graphID(count) == "g" \o ToString(count)
\* nodeID with the bug of counting from one.
nodeIDFromOne(count) == "n" \o ToString(count + 1)
nodeID(count) == "n" \o ToString(count)
edgeID(count) == "e" \o ToString(count)

\* The Graph that AddGraph builds.
newGraph(count, edgeDefault, data) ==
    [ID |-> graphID(count),
     EdgeDefault |-> IF edgeDefault = EdgeDirectionDirected
                        THEN edgeDirectionDirected ELSE edgeDirectionUndirected,
     Nodes |-> <<>>, Edges |-> <<>>, Data |-> data,
     parent |-> TRUE, nodesMap |-> EmptyMap, edgesMap |-> EmptyMap,
     edgesDirection |-> edgeDefault]

\* AddGraph once the attributes are processed (cd): store graph in parent.
storeGraph(count, edgeDefault, cd) ==
    IF cd.err # NoError THEN Returned(cd.gml, NilKey, "", cd.err)
    ELSE Returned([cd.gml EXCEPT !.Graphs = Append(cd.gml.Graphs, newGraph(count, edgeDefault, cd.data))],
                  NilKey, graphID(count), NoError)

\* AddGraph creates new Graph and add it to the root GraphML
AddGraph(gml, edgeDefault, attributes) ==
    IF edgeDefault \notin {EdgeDirectionDirected, EdgeDirectionUndirected}
        THEN Returned(gml, NilKey, "", ErrNoEdgeDirection)
    ELSE storeGraph(Len(gml.Graphs), edgeDefault, createDataAttributes(gml, attributes, KeyForGraph))

\* AddNode once the attributes are processed (cd): add node.
storeNode(gr, count, cd) ==
    IF cd.err # NoError THEN Returned(cd.gml, NilKey, "", cd.err)
    ELSE Returned([cd.gml EXCEPT
                    !.Graphs[gr].Nodes = Append(cd.gml.Graphs[gr].Nodes,
                            [ID |-> nodeID(count), Data |-> cd.data, graph |-> gr]),
                    !.Graphs[gr].nodesMap = MapPut(cd.gml.Graphs[gr].nodesMap, nodeID(count), count + 1)],
                  NilKey, nodeID(count), NoError)

\* AddNode adds node to the graph with provided additional attributes and
\* description.  gr is the slot of the receiver in gml.Graphs.
AddNode(gml, gr, attributes) ==
    storeNode(gr, Len(gml.Graphs[gr].Nodes), createDataAttributes(gml, attributes, KeyForNode))

\* edgeExists with the bug of looking at the graph's default direction only.
edgeExistsByGraphDefault(graph, sourceID, targetID, edgeDirection) ==
    \/ edgeIdentifier(sourceID, targetID) \in DOMAIN graph.edgesMap
    \/ /\ graph.edgesDirection = EdgeDirectionUndirected
       /\ edgeIdentifier(targetID, sourceID) \in DOMAIN graph.edgesMap

\* The existence test at the head of AddEdge.
edgeExists(graph, sourceID, targetID, edgeDirection) ==
    \/ edgeIdentifier(sourceID, targetID) \in DOMAIN graph.edgesMap
    \/ /\ (edgeDirection = EdgeDirectionUndirected \/ graph.edgesDirection = EdgeDirectionUndirected)
       /\ edgeIdentifier(targetID, sourceID) \in DOMAIN graph.edgesMap

\* The Edge that AddEdge builds.
newEdge(gr, count, source, target, edgeDirection, data) ==
    [ID |-> edgeID(count), Source |-> source.ID, Target |-> target.ID,
     Directed |-> IF edgeDirection = EdgeDirectionDirected THEN "true"
                  ELSE IF edgeDirection = EdgeDirectionUndirected THEN "false"
                  ELSE "",
     Data |-> data, graph |-> gr]

\* AddEdge once the attributes are processed (cd): add edge.
storeEdge(gr, count, source, target, edgeDirection, cd) ==
    IF cd.err # NoError THEN Returned(cd.gml, NilKey, "", cd.err)
    ELSE Returned([cd.gml EXCEPT
                    !.Graphs[gr].Edges = Append(cd.gml.Graphs[gr].Edges,
                            newEdge(gr, count, source, target, edgeDirection, cd.data)),
                    !.Graphs[gr].edgesMap = MapPut(cd.gml.Graphs[gr].edgesMap,
                            edgeIdentifier(source.ID, target.ID), count + 1)],
                  NilKey, edgeID(count), NoError)

\* AddEdge adds edge to the graph which connects two its nodes with provided
\* additional attributes and description.  source and target are *Node.
AddEdge(gml, gr, source, target, attributes, edgeDirection) ==
    IF edgeExists(gml.Graphs[gr], source.ID, target.ID, edgeDirection)
        THEN Returned(gml, NilKey, "", ErrEdgeExists)
    ELSE storeEdge(gr, Len(gml.Graphs[gr].Edges), source, target, edgeDirection,
                   createDataAttributes(gml, attributes, KeyForEdge))

\* GetNode method to test if node with given id exists (0: nil).
GetNode(graph, id) == IF id \in DOMAIN graph.nodesMap THEN graph.nodesMap[id] ELSE 0

\* GetEdge method to test if edge exists between given nodes (0: nil).
GetEdge(graph, sourceId, targetId) ==
    IF edgeIdentifier(sourceId, targetId) \in DOMAIN graph.edgesMap
        THEN graph.edgesMap[edgeIdentifier(sourceId, targetId)] ELSE 0

\* The nil *Node.
NilNode == [ID |-> "", Data |-> <<>>, graph |-> 0]

\* SourceNode method to get the source node struct.  e is an edge of gml.
SourceNode(gml, e) ==
    IF GetNode(gml.Graphs[e.graph], e.Source) = 0 THEN NilNode
    ELSE gml.Graphs[e.graph].Nodes[GetNode(gml.Graphs[e.graph], e.Source)]

\* TargetNode method to get the target node struct.  e is an edge of gml.
TargetNode(gml, e) ==
    IF GetNode(gml.Graphs[e.graph], e.Target) = 0 THEN NilNode
    ELSE gml.Graphs[e.graph].Nodes[GetNode(gml.Graphs[e.graph], e.Target)]

(***************************************************************************)
(* Attribute engine, decode path.  A string is parsed by table: the sets   *)
(* below list the texts of the model that strconv accepts.                 *)
(***************************************************************************)
\* strconv.ParseBool
ParseBool(val) ==
    IF val \in {"1", "t", "T", "TRUE", "true", "True"} THEN [str |-> "true", err |-> NoError]
    ELSE IF val \in {"0", "f", "F", "FALSE", "false", "False"} THEN [str |-> "false", err |-> NoError]
    ELSE [str |-> "", err |-> ErrParse]

\* The decimal integer texts of the model, all in the form fmt.Sprint prints.
IntegerTexts == {"0", "1", "7", "8"}
\* The other floating-point texts of the model, all exact in 32 bits.
FloatTexts == {"1.5", "2.5"}

\* strconv.ParseInt(val, 10, 64)
ParseInt(val) ==
    IF val \in IntegerTexts THEN [str |-> val, err |-> NoError] ELSE [str |-> "", err |-> ErrParse]

\* strconv.ParseFloat(val, 64)
ParseFloat(val) ==
    IF val \in IntegerTexts \cup FloatTexts THEN [str |-> val, err |-> NoError]
    ELSE [str |-> "", err |-> ErrParse]

\* A parsed value of the given kind, or the parse error.
typedValue(kind, parsed) == [value |-> [kind |-> kind, str |-> parsed.str], err |-> parsed.err]

\* Converts provided string value to the specified data type.  The call for
\* a key type that is none of the six and is the default key type itself
\* repeats itself with the same arguments: it does not return, and the run
\* ends when the stack is exhausted.
RECURSIVE valueByType(_, _, _)
valueByType(val, keyType, keyTypeDef) ==
    IF keyType = BooleanType THEN typedValue("Bool", ParseBool(val))
    ELSE IF keyType = IntType THEN typedValue("Int", ParseInt(val))
    ELSE IF keyType = LongType THEN typedValue("Int64", ParseInt(val))
    ELSE IF keyType = FloatType THEN typedValue("Float32", ParseFloat(val))
    ELSE IF keyType = DoubleType THEN typedValue("Float64", ParseFloat(val))
    ELSE IF keyType = StringType THEN [value |-> [kind |-> "String", str |-> val], err |-> NoError]
    ELSE IF keyTypeDef = "" THEN [value |-> [kind |-> "String", str |-> val], err |-> NoError]
    ELSE IF keyType = keyTypeDef THEN [value |-> NotAValue, err |-> StackOverflow]
    ELSE valueByType(val, keyTypeDef, keyTypeDef)

\* keysForElement returns all the keys from allKeys that apply to a certain element
keysForElement(allKeys, target) ==
    SelectSeq(allKeys, LAMBDA k : k.Target = target \/ k.Target = KeyForAll)

\* What attributesForData returns: the map (nil on error) and the error.
Attributes(attr, err) == [attr |-> attr, err |-> err]

\* The first loop of attributesForData: the Data records in order.
RECURSIVE attributesOfData(_, _, _)

\* attributesOfValue with the bug of not storing the value in the map.
attributesOfValueDropped(data, gml, attr, name, v) ==
    IF v.err # NoError THEN Attributes(EmptyMap, v.err)
    ELSE attributesOfData(Tail(data), gml, attr)

\* One round once the value v is parsed.
attributesOfValue(data, gml, attr, name, v) ==
    IF v.err # NoError THEN Attributes(EmptyMap, v.err)
    ELSE attributesOfData(Tail(data), gml, MapPut(attr, name, v.value))

\* attributesOfKey with the bug of never taking the default of the key.
attributesOfKeyWithoutDefault(data, gml, attr, d, key) ==
    IF d.Value = "" /\ key.KeyType # StringType /\ key.DefaultValue = ""
        THEN Attributes(EmptyMap, ErrNoValueNoDefault)
    ELSE attributesOfValue(data, gml, attr, key.Name,
            valueByType(d.Value, key.KeyType, gml.keyTypeDefault))

\* One round once the key of the Data record d is found: use data value or
\* default value.
attributesOfKey(data, gml, attr, d, key) ==
    IF d.Value = "" /\ key.KeyType # StringType /\ key.DefaultValue = ""
        THEN Attributes(EmptyMap, ErrNoValueNoDefault)
    ELSE attributesOfValue(data, gml, attr, key.Name,
            valueByType(IF d.Value = "" /\ key.KeyType # StringType THEN key.DefaultValue ELSE d.Value,
                        key.KeyType, gml.keyTypeDefault))

attributesOfData(data, gml, attr) ==
    IF data = <<>> THEN Attributes(attr, NoError)
    ELSE IF Head(data).Key \notin DOMAIN gml.keysById THEN Attributes(EmptyMap, ErrDanglingKey)
    ELSE attributesOfKey(data, gml, attr, Head(data), gml.keysById[Head(data).Key])

\* The second loop of attributesForData: fill defaults for undefined keys.
RECURSIVE fillDefaults(_, _, _)

\* One round once the default value v of the key k is parsed.
fillDefault(keys, gml, attr, k, v) ==
    IF v.err = StackOverflow THEN Attributes(EmptyMap, StackOverflow)
    ELSE IF v.err # NoError THEN Attributes(EmptyMap, ErrDefaultParse)
    ELSE fillDefaults(Tail(keys), gml, MapPut(attr, k.Name, v.value))

fillDefaults(keys, gml, attr) ==
    IF keys = <<>> THEN Attributes(attr, NoError)
    ELSE IF Head(keys).DefaultValue = "" /\ Head(keys).KeyType # StringType
        THEN fillDefaults(Tail(keys), gml, attr)
    ELSE IF Head(keys).Name \in DOMAIN attr THEN fillDefaults(Tail(keys), gml, attr)
    ELSE fillDefault(keys, gml, attr, Head(keys),
            valueByType(Head(keys).DefaultValue, Head(keys).KeyType, gml.keyTypeDefault))

\* attributesForData once the first loop is done.
attributesWithDefaults(target, gml, first) ==
    IF first.err # NoError THEN first
    ELSE fillDefaults(keysForElement(gml.Keys, target), gml, first.attr)

\* builds attributes map for specified data array
attributesForData(data, target, gml) ==
    attributesWithDefaults(target, gml, attributesOfData(data, gml, EmptyMap))

\* GetAttributes of the root element, of a graph, of a node and of an edge.
GetAttributesGraphML(gml) == attributesForData(gml.Data, KeyForGraphML, gml)
GetAttributesGraph(gml, gr) == attributesForData(gml.Graphs[gr].Data, KeyForGraph, gml)
GetAttributesNode(gml, gr, n) == attributesForData(gml.Graphs[gr].Nodes[n].Data, KeyForNode, gml)
GetAttributesEdge(gml, gr, e) == attributesForData(gml.Graphs[gr].Edges[e].Data, KeyForEdge, gml)

(***************************************************************************)
(* The XML form of a document, as encoding/xml writes and reads it from    *)
(* the struct tags: an element is its attributes (a map from attribute     *)
(* name to text, without the attributes left out) and its children; the    *)
(* unexported fields are not written.                                      *)
(***************************************************************************)
ErrDecode == "expected element type <graphml>"

\* An attribute as xml.Marshal writes it: left out when omitempty and empty.
xmlAttr(attrs, name, value, omitempty) ==
    IF omitempty /\ value = "" THEN attrs ELSE MapPut(attrs, name, value)

\* A field as xml.Unmarshal reads it: the zero value when the attribute is absent.
attrValue(attrs, name) == IF name \in DOMAIN attrs THEN attrs[name] ELSE ""

\* An element field with omitempty: no child element when empty.
xmlElement(value) == IF value = "" THEN <<>> ELSE <<value>>

\* A string field read from child elements: the zero value when there is none.
elementValue(children) == IF children = <<>> THEN "" ELSE children[Len(children)]

\* Data: id,attr,omitempty; key,attr; ,chardata
encodeData(d) ==
    [attrs |-> xmlAttr(xmlAttr(EmptyMap, "id", d.ID, TRUE), "key", d.Key, FALSE),
     chardata |-> d.Value]

encodeDataList(data) == [i \in 1..Len(data) |-> encodeData(data[i])]

\* Key: id,attr; for,attr,omitempty; attr.name,attr; attr.type,attr; default,omitempty
encodeKey(k) ==
    [attrs |-> xmlAttr(xmlAttr(xmlAttr(xmlAttr(EmptyMap, "id", k.ID, FALSE),
                    "for", k.Target, TRUE), "attr.name", k.Name, FALSE), "attr.type", k.KeyType, FALSE),
     default |-> xmlElement(k.DefaultValue)]

\* Node: id,attr; data,omitempty
encodeNode(n) == [attrs |-> xmlAttr(EmptyMap, "id", n.ID, FALSE), data |-> encodeDataList(n.Data)]

\* Edge: id,attr; source,attr; target,attr; directed,attr,omitempty; data,omitempty
encodeEdge(e) ==
    [attrs |-> xmlAttr(xmlAttr(xmlAttr(xmlAttr(EmptyMap, "id", e.ID, FALSE),
                    "source", e.Source, FALSE), "target", e.Target, FALSE), "directed", e.Directed, TRUE),
     data |-> encodeDataList(e.Data)]

\* Graph: id,attr; edgedefault,attr; node,omitempty; edge,omitempty; data,omitempty
encodeGraph(g) ==
    [attrs |-> xmlAttr(xmlAttr(EmptyMap, "id", g.ID, FALSE), "edgedefault", g.EdgeDefault, FALSE),
     nodes |-> [i \in 1..Len(g.Nodes) |-> encodeNode(g.Nodes[i])],
     edges |-> [i \in 1..Len(g.Edges) |-> encodeEdge(g.Edges[i])],
     data |-> encodeDataList(g.Data)]

\* Encode encodes GraphML into provided Writer.
Encode(gml) ==
    [name |-> "graphml",
     keys |-> [i \in 1..Len(gml.Keys) |-> encodeKey(gml.Keys[i])],
     data |-> encodeDataList(gml.Data),
     graphs |-> [i \in 1..Len(gml.Graphs) |-> encodeGraph(gml.Graphs[i])]]

\* The structs xml.Unmarshal makes of the elements; their unexported fields
\* hold the zero value.  ptr is the identity of the new *Key.
decodeData(w) ==
    [ID |-> attrValue(w.attrs, "id"), Key |-> attrValue(w.attrs, "key"),
     Value |-> w.chardata, madeFor |-> NilKey.ptr]

decodeDataList(data) == [i \in 1..Len(data) |-> decodeData(data[i])]

decodeKey(w, ptr) ==
    [ptr |-> ptr, ID |-> attrValue(w.attrs, "id"), Target |-> attrValue(w.attrs, "for"),
     Name |-> attrValue(w.attrs, "attr.name"), KeyType |-> attrValue(w.attrs, "attr.type"),
     DefaultValue |-> elementValue(w.default)]

decodeNode(w) == [ID |-> attrValue(w.attrs, "id"), Data |-> decodeDataList(w.data), graph |-> 0]

decodeEdge(w) ==
    [ID |-> attrValue(w.attrs, "id"), Source |-> attrValue(w.attrs, "source"),
     Target |-> attrValue(w.attrs, "target"), Directed |-> attrValue(w.attrs, "directed"),
     Data |-> decodeDataList(w.data), graph |-> 0]

decodeGraph(w) ==
    [ID |-> attrValue(w.attrs, "id"), EdgeDefault |-> attrValue(w.attrs, "edgedefault"),
     Nodes |-> [i \in 1..Len(w.nodes) |-> decodeNode(w.nodes[i])],
     Edges |-> [i \in 1..Len(w.edges) |-> decodeEdge(w.edges[i])],
     Data |-> decodeDataList(w.data),
     parent |-> FALSE, nodesMap |-> EmptyMap, edgesMap |-> EmptyMap,
     edgesDirection |-> EdgeDirectionDefault]

\* dec.Decode(gml): the elements read are appended to the lists of gml.
unmarshal(gml, r) ==
    [gml EXCEPT !.Keys = gml.Keys \o [i \in 1..Len(r.keys) |-> decodeKey(r.keys[i], gml.allocated + i - 1)],
                !.Data = gml.Data \o decodeDataList(r.data),
                !.Graphs = gml.Graphs \o [i \in 1..Len(r.graphs) |-> decodeGraph(r.graphs[i])],
                !.allocated = gml.allocated + Len(r.keys)]

\* populatedKey with the bug of leaving an empty target as read.
populatedKeyOfType(key, keyTypeDef) ==
    [key EXCEPT !.KeyType = IF key.KeyType = "" THEN keyTypeDef ELSE key.KeyType]

\* Decode, the key of the loop over gml.Keys: its type and target when empty.
populatedKey(key, keyTypeDef) ==
    [key EXCEPT !.KeyType = IF key.KeyType = "" THEN keyTypeDef ELSE key.KeyType,
                !.Target = IF key.Target = "" THEN KeyForAll ELSE key.Target]

\* A map filled in the order of a list: the last element of a name stays.
\* names[i] is the name of element i, values[i] what is stored for it.
filledMap(names, values) ==
    [x \in {names[i] : i \in 1..Len(names)} |->
        values[CHOOSE i \in 1..Len(names) :
                    names[i] = x /\ \A j \in (i + 1)..Len(names) : names[j] # x]]

\* A *Key stored in an index, as the loop over gml.Keys leaves the Key it
\* points to: the loop assigns to the fields of the Key itself, so every entry
\* that points to a listed key shows the populated fields.
seenThrough(key, keys) ==
    IF \E i \in 1..Len(keys) : keys[i].ptr = key.ptr
        THEN keys[CHOOSE i \in 1..Len(keys) : keys[i].ptr = key.ptr]
        ELSE key

\* Decode, the loop over gml.Keys.
populateKeys(gml, keys) ==
    [gml EXCEPT !.Keys = keys,
                !.keysByIdentifier = [x \in DOMAIN gml.keysByIdentifier
                                            \cup {keyIdentifier(keys[i].Name, keys[i].Target) : i \in 1..Len(keys)} |->
                        IF x \in {keyIdentifier(keys[i].Name, keys[i].Target) : i \in 1..Len(keys)}
                            THEN filledMap([i \in 1..Len(keys) |-> keyIdentifier(keys[i].Name, keys[i].Target)], keys)[x]
                            ELSE seenThrough(gml.keysByIdentifier[x], keys)],
                !.keysById = [x \in DOMAIN gml.keysById \cup {keys[i].ID : i \in 1..Len(keys)} |->
                        IF x \in {keys[i].ID : i \in 1..Len(keys)}
                            THEN filledMap([i \in 1..Len(keys) |-> keys[i].ID], keys)[x]
                            ELSE seenThrough(gml.keysById[x], keys)]]

\* Decode, one round of the loop over gml.Graphs; gr is the slot of the graph.
populatedGraph(graph, gr) ==
    [graph EXCEPT
        !.parent = TRUE,
        !.edgesDirection = IF graph.EdgeDefault = edgeDirectionDirected THEN EdgeDirectionDirected
                           ELSE IF graph.EdgeDefault = edgeDirectionUndirected THEN EdgeDirectionUndirected
                           ELSE graph.edgesDirection,
        !.edgesMap = filledMap([i \in 1..Len(graph.Edges) |->
                                    edgeIdentifier(graph.Edges[i].Source, graph.Edges[i].Target)],
                               [i \in 1..Len(graph.Edges) |-> i]),
        !.Edges = [i \in 1..Len(graph.Edges) |-> [graph.Edges[i] EXCEPT !.graph = gr]],
        !.nodesMap = filledMap([i \in 1..Len(graph.Nodes) |-> graph.Nodes[i].ID],
                               [i \in 1..Len(graph.Nodes) |-> i]),
        !.Nodes = [i \in 1..Len(graph.Nodes) |-> [graph.Nodes[i] EXCEPT !.graph = gr]]]

\* Decode, after dec.Decode(gml) returned no error: populate auxiliary data structure.
populate(gml) ==
    [populateKeys(gml, [i \in 1..Len(gml.Keys) |-> populatedKey(gml.Keys[i], gml.keyTypeDefault)])
        EXCEPT !.Graphs = [gr \in 1..Len(gml.Graphs) |-> populatedGraph(gml.Graphs[gr], gr)]]

\* Decode decodes GraphML from provided Reader
Decode(gml, r) ==
    IF r.name # "graphml" THEN Returned(gml, NilKey, "", ErrDecode)
    ELSE Returned(populate(unmarshal(gml, r)), NilKey, "", NoError)

(***************************************************************************)
(* The state machine.  The document is the record of the variables; every  *)
(* action is one call of the public interface, with its inputs drawn from  *)
(* the sets of the record in (the inputs and bounds of a specification).   *)
(***************************************************************************)
gmlNow ==
    [Keys |-> Keys, keysByIdentifier |-> keysByIdentifier, keysById |-> keysById,
     Data |-> Data, Graphs |-> Graphs, keyTypeDefault |-> keyTypeDefault,
     allocated |-> allocated]

gmlNext ==
    [Keys |-> Keys', keysByIdentifier |-> keysByIdentifier', keysById |-> keysById',
     Data |-> Data', Graphs |-> Graphs', keyTypeDefault |-> keyTypeDefault',
     allocated |-> allocated']

Install(gml) ==
    /\ Keys' = gml.Keys
    /\ keysByIdentifier' = gml.keysByIdentifier
    /\ keysById' = gml.keysById
    /\ Data' = gml.Data
    /\ Graphs' = gml.Graphs
    /\ keyTypeDefault' = gml.keyTypeDefault
    /\ allocated' = gml.allocated

\* NewGraphMLWithDefaultKeyType
NewGraphMLWithDefaultKeyType(keyTypeDef) ==
    [Keys |-> <<>>, keysByIdentifier |-> EmptyMap, keysById |-> EmptyMap,
     Data |-> <<>>, Graphs |-> <<>>, keyTypeDefault |-> keyTypeDef, allocated |-> 0]

\* NewGraphML creates new GraphML instance with provided description.
NewGraphML == NewGraphMLWithDefaultKeyType(StringType)

\* NewGraphMLWithAttributes once the attributes are processed (cd).
newWithData(cd) ==
    Returned([cd.gml EXCEPT !.Data = cd.data], NilKey, "", cd.err)

\* NewGraphMLWithAttributes creates new GraphML instance with given attributes
NewGraphMLWithAttributes(attributes) ==
    newWithData(createDataAttributes(NewGraphML, attributes, KeyForGraphML))

\* A Reader nothing was written to.
NoDocument == [name |-> "", keys |-> <<>>, data |-> <<>>, graphs |-> <<>>]

\* The record of a call: what was called, with what, and what it returned.
Call(op) ==
    [op |-> op, err |-> NoError, target |-> "", name |-> "", key |-> NilKey,
     retKey |-> NilKey, gr |-> 0, source |-> "", dest |-> "", direction |-> EdgeDirectionDefault,
     attributes |-> EmptyMap, ret |-> "", r |-> NoDocument, sourceGraph |-> 0, destGraph |-> 0]

\* The attribute maps over the names and values of in.
AttributeMaps(in) == UNION {[S -> in.values] : S \in SUBSET in.names}

\* The document a constructor returned (r) is the initial state.
Constructed(in, r, call) ==
    /\ r.err = NoError
    /\ r.gml.allocated <= in.maxAllocated
    /\ Keys = r.gml.Keys
    /\ keysByIdentifier = r.gml.keysByIdentifier
    /\ keysById = r.gml.keysById
    /\ Data = r.gml.Data
    /\ Graphs = r.gml.Graphs
    /\ keyTypeDefault = r.gml.keyTypeDefault
    /\ allocated = r.gml.allocated
    /\ last = call

InitOf(in) ==
    \E attributes \in AttributeMaps(in) :
        Constructed(in, NewGraphMLWithAttributes(attributes),
                    [Call("NewGraphMLWithAttributes") EXCEPT !.attributes = attributes])

\* The call returns r: the document is as r.gml, and last records the call.
Return(in, r, call) ==
    /\ r.gml.allocated <= in.maxAllocated
    /\ Install(r.gml)
    /\ last' = [call EXCEPT !.err = r.err, !.ret = r.ret, !.retKey = r.key]

DoRegisterKey(in) ==
    \E target \in in.targets, name \in in.names, keyType \in in.kinds, defaultValue \in in.defaults :
        /\ allocated <= in.maxAllocated
        /\ Return(in, RegisterKey(gmlNow, target, name, keyType, defaultValue),
                  [Call("RegisterKey") EXCEPT !.target = target, !.name = name])

\* The *Key values a caller holds: the listed keys, and the key it removed last.
HeldKeys == {Keys[i] : i \in 1..Len(Keys)} \cup (IF last.op = "RemoveKey" THEN {last.key} ELSE {})

DoRemoveKey(in) ==
    \E key \in HeldKeys :
        /\ Len(Keys) <= in.maxAllocated
        /\ Return(in, RemoveKey(gmlNow, key), [Call("RemoveKey") EXCEPT !.key = key])

\* RemoveAttribute of the root, of a graph, of a node or of an edge, with the
\* id of a key: last records the kind of the element (target), its graph
\* (gr), its id (ret) and the key id (name).
DoRemoveAttribute(in) ==
    \E key \in {keyID(count) : count \in 0..in.maxAllocated} :
        \/ Return(in, Returned(RemoveAttributeGraphML(gmlNow, key), NilKey, "", NoError),
                  [Call("RemoveAttribute") EXCEPT !.target = KeyForGraphML, !.name = key])
        \/ \E gr \in 1..Len(Graphs) :
            \/ Return(in, Returned(RemoveAttributeGraph(gmlNow, gr, key), NilKey, Graphs[gr].ID, NoError),
                      [Call("RemoveAttribute") EXCEPT !.target = KeyForGraph, !.gr = gr, !.name = key])
            \/ \E n \in 1..Len(Graphs[gr].Nodes) :
                Return(in, Returned(RemoveAttributeNode(gmlNow, gr, n, key), NilKey,
                                    Graphs[gr].Nodes[n].ID, NoError),
                       [Call("RemoveAttribute") EXCEPT !.target = KeyForNode, !.gr = gr, !.name = key])
            \/ \E e \in 1..Len(Graphs[gr].Edges) :
                Return(in, Returned(RemoveAttributeEdge(gmlNow, gr, e, key), NilKey,
                                    Graphs[gr].Edges[e].ID, NoError),
                       [Call("RemoveAttribute") EXCEPT !.target = KeyForEdge, !.gr = gr, !.name = key])

\* The numbers of nodes, of edges and of elements in the document.
RECURSIVE SumOf(_)
SumOf(counts) == IF counts = <<>> THEN 0 ELSE Head(counts) + SumOf(Tail(counts))
NodeCount == SumOf([g \in 1..Len(Graphs) |-> Len(Graphs[g].Nodes)])
EdgeCount == SumOf([g \in 1..Len(Graphs) |-> Len(Graphs[g].Edges)])
ElementCount == Len(Graphs) + NodeCount + EdgeCount

DoAddGraph(in) ==
    \E edgeDefault \in in.directions, attributes \in AttributeMaps(in) :
        /\ Len(Graphs) < in.maxGraphs
        /\ ElementCount < in.maxElements
        /\ Return(in, AddGraph(gmlNow, edgeDefault, attributes),
                  [Call("AddGraph") EXCEPT !.direction = edgeDefault, !.attributes = attributes])

DoAddNode(in) ==
    \E gr \in 1..Len(Graphs), attributes \in AttributeMaps(in) :
        /\ NodeCount < in.maxNodes
        /\ ElementCount < in.maxElements
        /\ Return(in, AddNode(gmlNow, gr, attributes),
                  [Call("AddNode") EXCEPT !.gr = gr, !.attributes = attributes])

\* The *Node values a caller holds: every node of every graph of the document.
HeldNodes == UNION {{Graphs[g].Nodes[n] : n \in 1..Len(Graphs[g].Nodes)} : g \in 1..Len(Graphs)}

DoAddEdge(in) ==
    \E gr \in 1..Len(Graphs), source \in HeldNodes, target \in HeldNodes,
       edgeDirection \in in.edgeDirections, attributes \in AttributeMaps(in) :
        /\ EdgeCount < in.maxEdges
        /\ ElementCount < in.maxElements
        /\ Return(in, AddEdge(gmlNow, gr, source, target, attributes, edgeDirection),
                  [Call("AddEdge") EXCEPT !.gr = gr, !.source = source.ID, !.dest = target.ID,
                        !.sourceGraph = source.graph, !.destGraph = target.graph,
                        !.direction = edgeDirection, !.attributes = attributes])

\* Decode reads one of the documents of in into the document.
DoDecode(in) ==
    \E r \in in.readers :
        /\ last.op # "Decode"
        /\ Return(in, Decode(gmlNow, r), [Call("Decode") EXCEPT !.r = r])

\* Encode writes the document, and Decode reads what was written into a
\* fresh document, which is the document from then on.
DoEncodeDecode(in) ==
    /\ last.op # "Decode"
    /\ Return(in, Decode(NewGraphML, Encode(gmlNow)), [Call("Decode") EXCEPT !.r = Encode(gmlNow)])

AllTargets == {KeyForGraphML, KeyForGraph, KeyForNode, KeyForEdge, KeyForAll}

(***************************************************************************)
(* Spec: the key registry.  Every scope, two names, keys of one type       *)
(* without default, in a document of one graph with one node and one edge. *)
(***************************************************************************)
Inputs ==
    [targets |-> AllTargets,
     names |-> {"a", "b"},
     kinds |-> {"Int"},
     defaults |-> {NotAValue},
     values |-> {[kind |-> "Int", str |-> "7"]},
     directions |-> {EdgeDirectionDefault, EdgeDirectionDirected},
     edgeDirections |-> {EdgeDirectionDefault},
     maxAllocated |-> MaxAllocated, maxGraphs |-> 1, maxNodes |-> 1, maxEdges |-> 1, maxElements |-> 3]

Init == InitOf(Inputs)

Next ==
    \/ DoRegisterKey(Inputs)
    \/ DoRemoveKey(Inputs)
    \/ DoRemoveAttribute(Inputs)
    \/ DoAddGraph(Inputs)
    \/ DoAddNode(Inputs)
    \/ DoAddEdge(Inputs)

Spec == Init /\ [][Next]_vars

(***************************************************************************)
(* SpecRemoval: the key registry over runs long enough to register a key   *)
(* after another one was removed.                                          *)
(***************************************************************************)
RemovalInputs == [Inputs EXCEPT !.maxAllocated = MaxRegistered]

InitRemoval == InitOf(RemovalInputs)

NextRemoval ==
    \/ DoRegisterKey(RemovalInputs)
    \/ DoRemoveKey(RemovalInputs)
    \/ DoAddGraph(RemovalInputs)
    \/ DoAddNode(RemovalInputs)
    \/ DoAddEdge(RemovalInputs)

SpecRemoval == InitRemoval /\ [][NextRemoval]_vars

(***************************************************************************)
(* SpecAttributes: attribute values of two types and the no-value          *)
(* sentinel, keys with and without default.                                *)
(***************************************************************************)
AttributeInputs ==
    [targets |-> {KeyForAll, KeyForNode},
     names |-> {"a", "b"},
     kinds |-> {"Int"},
     defaults |-> {NotAValue},
     values |-> {NotAValue, [kind |-> "Int", str |-> "8"], [kind |-> "String", str |-> "x"]},
     directions |-> {EdgeDirectionDirected},
     edgeDirections |-> {EdgeDirectionDefault},
     maxAllocated |-> MaxAttributeKeys, maxGraphs |-> 1, maxNodes |-> 1, maxEdges |-> 1, maxElements |-> 3]

InitAttributes == InitOf(AttributeInputs)

NextAttributes ==
    \/ DoRegisterKey(AttributeInputs)
    \/ DoRemoveKey(AttributeInputs)
    \/ DoAddGraph(AttributeInputs)
    \/ DoAddNode(AttributeInputs)
    \/ DoAddEdge(AttributeInputs)

SpecAttributes == InitAttributes /\ [][NextAttributes]_vars

(***************************************************************************)
(* SpecEdges: the graph element model.  Graphs of both default directions, *)
(* edges of default and of undirected direction between the nodes of the   *)
(* document, which holds MaxElements graphs, nodes and edges in all.       *)
(***************************************************************************)
EdgeInputs ==
    [targets |-> {KeyForNode},
     names |-> {"a"},
     kinds |-> {"Int"},
     defaults |-> {NotAValue},
     values |-> {NotAValue},
     directions |-> {EdgeDirectionDefault, EdgeDirectionDirected, EdgeDirectionUndirected},
     edgeDirections |-> {EdgeDirectionDefault, EdgeDirectionUndirected},
     maxAllocated |-> 1, maxGraphs |-> MaxElements, maxNodes |-> MaxElements, maxEdges |-> MaxElements,
     maxElements |-> MaxElements]

InitEdges == InitOf(EdgeInputs)

NextEdges ==
    \/ DoRegisterKey(EdgeInputs)
    \/ DoRemoveKey(EdgeInputs)
    \/ DoAddGraph(EdgeInputs)
    \/ DoAddNode(EdgeInputs)
    \/ DoAddEdge(EdgeInputs)

SpecEdges == InitEdges /\ [][NextEdges]_vars

(***************************************************************************)
(* The claims.                                                             *)
(***************************************************************************)
\* The keys of the document's key list, and those registered for (name, target).
ListedKeys == {Keys[i] : i \in 1..Len(Keys)}
RegisteredFor(name, target) == {k \in ListedKeys : k.Name = name /\ k.Target = target}

\* The names and scopes the claims quantify over.
ClaimNames == {"a", "b"}

\* The fields of the document a caller can observe.
document == <<Keys, keysByIdentifier, keysById, Data, Graphs>>

\* C1: GetKey(name, scope) returns the key registered for exactly (name, scope)
\* when one is in the key list; otherwise the key registered for (name, "all")
\* when one is in the key list; otherwise nil.
C1_GetKeyResolution ==
    \A name \in ClaimNames, target \in AllTargets :
        IF RegisteredFor(name, target) # {}
            THEN RegisteredFor(name, target) = {GetKey(gmlNow, name, target)}
        ELSE IF RegisteredFor(name, KeyForAll) # {}
            THEN RegisteredFor(name, KeyForAll) = {GetKey(gmlNow, name, target)}
        ELSE GetKey(gmlNow, name, target) = NilKey

\* C1 witness: after a key was removed, GetKey falls back to the key of scope
\* "all" for one name and finds nothing for the other.
C1_Witness ==
    /\ last.op = "RemoveKey" /\ last.err = NoError
    /\ RegisteredFor("a", KeyForNode) = {}
    /\ GetKey(gmlNow, "a", KeyForNode) \in RegisteredFor("a", KeyForAll)
    /\ GetKey(gmlNow, "b", KeyForNode) = NilKey

\* C2: RegisterKey(scope, name, ...) fails with the duplicate-key error and
\* leaves the document as it was whenever GetKey(name, scope) resolves to a key
\* before the call: in particular when a key (name, all) is listed, and when a
\* key (name, scope) is listed.
C2_DuplicateKeyRejected ==
    [][(/\ last'.op = "RegisterKey"
        /\ \/ GetKey(gmlNow, last'.name, last'.target) # NilKey
           \/ RegisteredFor(last'.name, KeyForAll) # {}
           \/ RegisteredFor(last'.name, last'.target) # {})
       => (/\ last'.err = ErrKeyRegistered
           /\ last'.retKey = NilKey
           /\ UNCHANGED document)]_vars

\* C2 witness: RegisterKey for scope node has just failed as a duplicate of a
\* key of scope "all".
C2_Witness ==
    /\ last.op = "RegisterKey" /\ last.err = ErrKeyRegistered
    /\ last.target = KeyForNode
    /\ RegisteredFor(last.name, KeyForNode) = {}
    /\ RegisteredFor(last.name, KeyForAll) # {}

\* C3 (as claimed): no two listed keys share (name, scope), and no name has
\* both a key of scope "all" and a key of a more specific scope.
C3_NoSharedName ==
    /\ \A i \in 1..Len(Keys), j \in 1..Len(Keys) :
        (i # j) => ~(Keys[i].Name = Keys[j].Name /\ Keys[i].Target = Keys[j].Target)
    /\ \A name \in ClaimNames, target \in AllTargets \ {KeyForAll} :
        ~(RegisteredFor(name, KeyForAll) # {} /\ RegisteredFor(name, target) # {})

\* C8 (as claimed): the n-th key successfully registered has the id d<n-1>,
\* and the id of a key never changes.  (ptr is n-1 for the n-th key.)
C8_SequentialKeyIds ==
    [][/\ \A k \in ListedKeys' : k.ID = "d" \o ToString(k.ptr)
       /\ \A i \in 1..Len(Keys), j \in 1..Len(Keys') :
            (Keys[i].ptr = Keys'[j].ptr) => (Keys[i].ID = Keys'[j].ID)]_vars

\* The Add* calls, and the scope of the element each one creates.
AddCalls == {"AddGraph", "AddNode", "AddEdge"}
TargetOfCall(op) ==
    IF op = "AddGraph" THEN KeyForGraph ELSE IF op = "AddNode" THEN KeyForNode ELSE KeyForEdge

\* C4 (as claimed): a call of RegisterKey, AddGraph, AddNode or AddEdge that
\* returns an error leaves the whole document exactly as it was.
C4_FailedCallChangesNothing ==
    [][(/\ last'.op \in AddCalls \cup {"RegisterKey"}
        /\ last'.err \notin {NoError, Panic})
       => UNCHANGED document]_vars

\* Whether a Go value of the given kind may be stored under a key of the given
\* type: bool under boolean, the integer kinds under int and long, the float
\* kinds under float and double, string under string.
Compatible(kind, keyType) ==
    \/ kind = "Bool" /\ keyType = BooleanType
    \/ kind \in {"Int", "Int64"} /\ keyType \in {IntType, LongType}
    \/ kind \in {"Float32", "Float64"} /\ keyType \in {FloatType, DoubleType}
    \/ kind = "String" /\ keyType = StringType

TypeMismatchErrors == {ErrUnsupportedType, ErrWrongBoolean, ErrWrongInt, ErrWrongFloat, ErrWrongString}

\* C5 (as claimed): when an Add* call is given, for an attribute name that
\* resolves to an existing key, a value whose type is incompatible with the
\* key's type, the call fails with a type-mismatch error and no element (hence
\* no Data record) is added.
C5_TypeMismatchRejected ==
    [][(/\ last'.op \in AddCalls
        /\ \E name \in DOMAIN last'.attributes :
            /\ last'.attributes[name] # NotAValue
            /\ GetKey(gmlNow, name, TargetOfCall(last'.op)) # NilKey
            /\ ~Compatible(last'.attributes[name].kind,
                           GetKey(gmlNow, name, TargetOfCall(last'.op)).KeyType))
       => (/\ last'.err \in TypeMismatchErrors
           /\ last'.ret = ""
           /\ Graphs' = Graphs)]_vars

\* Every Data record of the document: of the root, the graphs, the nodes, the edges.
RECURSIVE Flatten(_)
Flatten(lists) == IF lists = <<>> THEN <<>> ELSE Head(lists) \o Flatten(Tail(lists))
DataOfGraph(graph) ==
    graph.Data \o Flatten([n \in 1..Len(graph.Nodes) |-> graph.Nodes[n].Data])
               \o Flatten([e \in 1..Len(graph.Edges) |-> graph.Edges[e].Data])
AllData(gml) == gml.Data \o Flatten([g \in 1..Len(gml.Graphs) |-> DataOfGraph(gml.Graphs[g])])
ReferencesTo(gml, key) == {i \in 1..Len(AllData(gml)) : AllData(gml)[i].madeFor = key.ptr}

\* C6 (as claimed): after RemoveKey(K) returns without error, no Data record of
\* the document, of a graph, of a node or of an edge references K.
C6_TotalCascade ==
    (last.op = "RemoveKey" /\ last.err = NoError) => ReferencesTo(gmlNow, last.key) = {}

\* Whether GetAttributes returned a map that has the name.
HasName(attributes, name) == attributes.err = NoError /\ name \in DOMAIN attributes.attr

\* C7 (as claimed): after RemoveKey(K) returns without error, GetKey(K.name,
\* K.scope) returns nil, and GetAttributes of every element that carried a Data
\* value for K before the removal returns no map that contains K's name.
C7_RemovedKeyGone ==
    [][(last'.op = "RemoveKey" /\ last'.err = NoError)
       => (/\ GetKey(gmlNext, last'.key.Name, last'.key.Target) = NilKey
           /\ (\E d \in 1..Len(Data) : Data[d].madeFor = last'.key.ptr)
                => ~HasName(GetAttributesGraphML(gmlNext), last'.key.Name)
           /\ \A g \in 1..Len(Graphs) :
                /\ (\E d \in 1..Len(Graphs[g].Data) : Graphs[g].Data[d].madeFor = last'.key.ptr)
                    => ~HasName(GetAttributesGraph(gmlNext, g), last'.key.Name)
                /\ \A n \in 1..Len(Graphs[g].Nodes) :
                    (\E d \in 1..Len(Graphs[g].Nodes[n].Data) : Graphs[g].Nodes[n].Data[d].madeFor = last'.key.ptr)
                    => ~HasName(GetAttributesNode(gmlNext, g, n), last'.key.Name)
                /\ \A e \in 1..Len(Graphs[g].Edges) :
                    (\E d \in 1..Len(Graphs[g].Edges[e].Data) : Graphs[g].Edges[e].Data[d].madeFor = last'.key.ptr)
                    => ~HasName(GetAttributesEdge(gmlNext, g, e), last'.key.Name))]_vars

\* C9: the n-th graph added has the id g<n-1>, and in each graph the n-th node
\* added has the id n<n-1> and the n-th edge added the id e<n-1>; a successful
\* AddGraph, AddNode or AddEdge appends one element, with the id it returns, and
\* a failed one appends nothing; so the ids of the graphs are pairwise distinct,
\* and so are those of the nodes and of the edges of one graph.
C9_SequentialElementIds ==
    [][/\ \A g \in 1..Len(Graphs') :
            /\ Graphs'[g].ID = "g" \o ToString(g - 1)
            /\ \A n \in 1..Len(Graphs'[g].Nodes) : Graphs'[g].Nodes[n].ID = "n" \o ToString(n - 1)
            /\ \A e \in 1..Len(Graphs'[g].Edges) : Graphs'[g].Edges[e].ID = "e" \o ToString(e - 1)
            /\ \A m, n \in 1..Len(Graphs'[g].Nodes) :
                (m # n) => Graphs'[g].Nodes[m].ID # Graphs'[g].Nodes[n].ID
            /\ \A e, f \in 1..Len(Graphs'[g].Edges) :
                (e # f) => Graphs'[g].Edges[e].ID # Graphs'[g].Edges[f].ID
       /\ \A g, h \in 1..Len(Graphs') : (g # h) => Graphs'[g].ID # Graphs'[h].ID
       /\ Len(Graphs') >= Len(Graphs)
       /\ \A g \in 1..Len(Graphs) :
            /\ Graphs'[g].ID = Graphs[g].ID
            /\ Len(Graphs'[g].Nodes) >= Len(Graphs[g].Nodes)
            /\ Len(Graphs'[g].Edges) >= Len(Graphs[g].Edges)
            /\ \A n \in 1..Len(Graphs[g].Nodes) : Graphs'[g].Nodes[n].ID = Graphs[g].Nodes[n].ID
            /\ \A e \in 1..Len(Graphs[g].Edges) : Graphs'[g].Edges[e].ID = Graphs[g].Edges[e].ID
       /\ (last'.op = "AddGraph") =>
            IF last'.err = NoError
                THEN /\ Len(Graphs') = Len(Graphs) + 1
                     /\ last'.ret = "g" \o ToString(Len(Graphs))
                     /\ Graphs'[Len(Graphs')].ID = last'.ret
                ELSE Len(Graphs') = Len(Graphs) /\ last'.ret = ""
       /\ (last'.op = "AddNode") =>
            IF last'.err = NoError
                THEN /\ Len(Graphs'[last'.gr].Nodes) = Len(Graphs[last'.gr].Nodes) + 1
                     /\ last'.ret = "n" \o ToString(Len(Graphs[last'.gr].Nodes))
                     /\ Graphs'[last'.gr].Nodes[Len(Graphs'[last'.gr].Nodes)].ID = last'.ret
                ELSE /\ Len(Graphs'[last'.gr].Nodes) = Len(Graphs[last'.gr].Nodes)
                     /\ last'.ret = ""
       /\ (last'.op = "AddEdge") =>
            IF last'.err = NoError
                THEN /\ Len(Graphs'[last'.gr].Edges) = Len(Graphs[last'.gr].Edges) + 1
                     /\ last'.ret = "e" \o ToString(Len(Graphs[last'.gr].Edges))
                     /\ Graphs'[last'.gr].Edges[Len(Graphs'[last'.gr].Edges)].ID = last'.ret
                ELSE /\ Len(Graphs'[last'.gr].Edges) = Len(Graphs[last'.gr].Edges)
                     /\ last'.ret = ""]_vars

\* C9 witness: a second node was added to the second graph, which holds the
\* ids n0 and n1 as the first graph does.
C9_Witness ==
    /\ last.op = "AddNode" /\ last.err = NoError /\ last.gr = 2 /\ last.ret = "n1"
    /\ Len(Graphs) = 2 /\ Graphs[2].ID = "g1"
    /\ Len(Graphs[2].Nodes) = 2 /\ Graphs[2].Nodes[2].ID = "n1"

\* C10: AddEdge(source, target, ..., edgeDirection) fails with the
\* edge-already-exists error exactly when an edge is indexed under (source,
\* target), or one is indexed under (target, source) and edgeDirection or the
\* graph's default direction is undirected; an edge added is then the one
\* GetEdge(source, target) returns, and GetEdge returns for every other pair
\* what it returned before.
C10_EdgeAlreadyExists ==
    [][(last'.op = "AddEdge") =>
        /\ (last'.err = ErrEdgeExists) <=>
            \/ GetEdge(Graphs[last'.gr], last'.source, last'.dest) # 0
            \/ /\ GetEdge(Graphs[last'.gr], last'.dest, last'.source) # 0
               /\ \/ last'.direction = EdgeDirectionUndirected
                  \/ Graphs[last'.gr].EdgeDefault = edgeDirectionUndirected
        /\ (last'.err = NoError) =>
            /\ GetEdge(Graphs'[last'.gr], last'.source, last'.dest) = Len(Graphs'[last'.gr].Edges)
            /\ Graphs'[last'.gr].Edges[Len(Graphs'[last'.gr].Edges)].Source = last'.source
            /\ Graphs'[last'.gr].Edges[Len(Graphs'[last'.gr].Edges)].Target = last'.dest
            /\ \A s, t \in {"n0", "n1", "n2"} :
                (<<s, t>> # <<last'.source, last'.dest>>) =>
                    GetEdge(Graphs'[last'.gr], s, t) = GetEdge(Graphs[last'.gr], s, t)]_vars

\* C10 witness: in a graph of directed default, AddEdge(A, B) and then
\* AddEdge(B, A) succeeded and GetEdge returns the two edges.
C10_Witness ==
    /\ last.op = "AddEdge" /\ last.err = NoError /\ last.direction = EdgeDirectionDefault
    /\ last.source = "n1" /\ last.dest = "n0"
    /\ Graphs[last.gr].EdgeDefault = edgeDirectionDirected
    /\ GetEdge(Graphs[last.gr], "n0", "n1") = 1
    /\ GetEdge(Graphs[last.gr], "n1", "n0") = 2

\* C11 (as claimed): a graph never holds two edges with the same ordered
\* (source, target) pair, and never two edges over the same unordered pair of
\* nodes when the graph's default is undirected or one of the two edges was
\* added as explicitly undirected.
C11_NoParallelEdges ==
    \A g \in 1..Len(Graphs) : \A e, f \in 1..Len(Graphs[g].Edges) :
        (e # f) =>
            /\ ~(/\ Graphs[g].Edges[e].Source = Graphs[g].Edges[f].Source
                 /\ Graphs[g].Edges[e].Target = Graphs[g].Edges[f].Target)
            /\ (\/ Graphs[g].EdgeDefault = edgeDirectionUndirected
                \/ Graphs[g].Edges[e].Directed = "false"
                \/ Graphs[g].Edges[f].Directed = "false")
               => ~(/\ Graphs[g].Edges[e].Source = Graphs[g].Edges[f].Target
                    /\ Graphs[g].Edges[e].Target = Graphs[g].Edges[f].Source)

(***************************************************************************)
(* SpecDefaults: default values.  Keys of type double, with and without    *)
(* default, for every element and for nodes; attributes given with a       *)
(* double, with the empty string and with NotAValue.                       *)
(***************************************************************************)
DefaultInputs ==
    [targets |-> {KeyForAll, KeyForNode},
     names |-> {"a", "b"},
     kinds |-> {"Float64"},
     defaults |-> {NotAValue, [kind |-> "Float64", str |-> "1"]},
     values |-> {NotAValue, [kind |-> "Float64", str |-> "2.5"], [kind |-> "String", str |-> ""]},
     directions |-> {EdgeDirectionDirected},
     edgeDirections |-> {EdgeDirectionDefault},
     maxAllocated |-> MaxDefaultKeys, maxGraphs |-> 1, maxNodes |-> 1, maxEdges |-> 1, maxElements |-> 3]

InitDefaults == InitOf(DefaultInputs)

NextDefaults ==
    \/ DoRegisterKey(DefaultInputs)
    \/ DoRemoveKey(DefaultInputs)
    \/ DoAddGraph(DefaultInputs)
    \/ DoAddNode(DefaultInputs)
    \/ DoAddEdge(DefaultInputs)

SpecDefaults == InitDefaults /\ [][NextDefaults]_vars

(***************************************************************************)
(* SpecReuse: keys of two types registered for every element, removed and  *)
(* registered again, and elements that take the default of a key.          *)
(***************************************************************************)
ReuseInputs ==
    [targets |-> {KeyForAll},
     names |-> {"a", "b"},
     kinds |-> {"Int", "Float64"},
     defaults |-> {NotAValue, [kind |-> "Float64", str |-> "1.5"]},
     values |-> {NotAValue},
     directions |-> {EdgeDirectionDirected},
     edgeDirections |-> {EdgeDirectionDefault},
     maxAllocated |-> MaxReuseKeys, maxGraphs |-> 1, maxNodes |-> 1, maxEdges |-> 1, maxElements |-> 3]

InitReuse == InitOf(ReuseInputs)

NextReuse ==
    \/ DoRegisterKey(ReuseInputs)
    \/ DoRemoveKey(ReuseInputs)
    \/ DoAddGraph(ReuseInputs)
    \/ DoAddNode(ReuseInputs)
    \/ DoAddEdge(ReuseInputs)

SpecReuse == InitReuse /\ [][NextReuse]_vars

\* The Data list of the element the last Add* call created, and what
\* GetAttributes returns for that element.
CreatedData ==
    IF last'.op = "AddGraph" THEN Graphs'[Len(Graphs')].Data
    ELSE IF last'.op = "AddNode" THEN Graphs'[last'.gr].Nodes[Len(Graphs'[last'.gr].Nodes)].Data
    ELSE Graphs'[last'.gr].Edges[Len(Graphs'[last'.gr].Edges)].Data
CreatedAttributes == attributesForData(CreatedData, TargetOfCall(last'.op), gmlNext)

\* The kind of the Go value that GetAttributes returns for a key type.
KindOfType(keyType) ==
    IF keyType = BooleanType THEN "Bool" ELSE IF keyType = IntType THEN "Int"
    ELSE IF keyType = LongType THEN "Int64" ELSE IF keyType = FloatType THEN "Float32"
    ELSE IF keyType = DoubleType THEN "Float64" ELSE "String"

\* Whether the call takes the default of a key of scope "all" for the name.
TakesDefault(call, name) ==
    /\ name \in DOMAIN call.attributes
    /\ call.attributes[name] = NotAValue
    /\ GetKey(gmlNow, name, TargetOfCall(call.op)).Target = KeyForAll
    /\ GetKey(gmlNow, name, TargetOfCall(call.op)).DefaultValue # ""

\* Whether the call gives for the name a value of a supported type that its
\* key, when it has one, accepts.
GivesValue(call, name) ==
    /\ name \in DOMAIN call.attributes
    /\ call.attributes[name] # NotAValue
    /\ typeNameForKind(call.attributes[name].kind).err = NoError
    /\ \/ GetKey(gmlNow, name, TargetOfCall(call.op)) = NilKey
       \/ Compatible(call.attributes[name].kind, GetKey(gmlNow, name, TargetOfCall(call.op)).KeyType)

\* C12 (as claimed): when an Add* call gives NotAValue for a name that
\* resolves to a key of scope "all" with a stored default (and nothing else in
\* its attribute map is to fail), the element is added with one Data record
\* for that key, whose value is the stored default, and GetAttributes of the
\* element maps the name to the default value.
C12_DefaultSubstituted ==
    [][\A name \in ClaimNames :
        (/\ last'.op \in AddCalls
         /\ last'.op = "AddEdge" => last'.err # ErrEdgeExists
         /\ TakesDefault(last', name)
         /\ \A other \in DOMAIN last'.attributes :
                TakesDefault(last', other) \/ GivesValue(last', other))
        => (/\ last'.err = NoError
            /\ last'.ret # ""
            /\ Cardinality({d \in 1..Len(CreatedData) :
                    CreatedData[d].madeFor = GetKey(gmlNow, name, TargetOfCall(last'.op)).ptr}) = 1
            /\ \A d \in 1..Len(CreatedData) :
                (CreatedData[d].madeFor = GetKey(gmlNow, name, TargetOfCall(last'.op)).ptr)
                => /\ CreatedData[d].Key = GetKey(gmlNow, name, TargetOfCall(last'.op)).ID
                   /\ CreatedData[d].Value = GetKey(gmlNow, name, TargetOfCall(last'.op)).DefaultValue
            /\ CreatedAttributes.err = NoError
            /\ name \in DOMAIN CreatedAttributes.attr
            /\ CreatedAttributes.attr[name] =
                [kind |-> KindOfType(GetKey(gmlNow, name, TargetOfCall(last'.op)).KeyType),
                 str |-> GetKey(gmlNow, name, TargetOfCall(last'.op)).DefaultValue])]_vars

\* Whether the call gives NotAValue for a name that resolves to no key, or to
\* a key without stored default.
LacksDefault(call, name) ==
    /\ name \in DOMAIN call.attributes
    /\ call.attributes[name] = NotAValue
    /\ GetKey(gmlNow, name, TargetOfCall(call.op)).DefaultValue = ""

\* The numbers of graphs, of nodes and of edges in the document as the step
\* leaves it.
ElementsNow == <<Len(Graphs), NodeCount, EdgeCount>>
ElementsNext ==
    <<Len(Graphs'),
      SumOf([g \in 1..Len(Graphs') |-> Len(Graphs'[g].Nodes)]),
      SumOf([g \in 1..Len(Graphs') |-> Len(Graphs'[g].Edges)])>>

\* C13 (as claimed): when an Add* call gives NotAValue for a name that
\* resolves to a key without stored default, or to no key at all, the call
\* returns the missing-value error and adds no element.
C13_MissingValueRejected ==
    [][(/\ last'.op \in AddCalls
        /\ last'.op = "AddEdge" => last'.err # ErrEdgeExists
        /\ \E name \in ClaimNames : LacksDefault(last', name))
       => (/\ last'.err = ErrEmptyAttribute
           /\ last'.ret = ""
           /\ ElementsNext = ElementsNow)]_vars

\* Whether the call gives NotAValue for a name that resolves to a key of the
\* scope of the element (graph, node or edge) with a stored default.
TakesScopedDefault(call, name) ==
    /\ name \in DOMAIN call.attributes
    /\ call.attributes[name] = NotAValue
    /\ GetKey(gmlNow, name, TargetOfCall(call.op)).Target = TargetOfCall(call.op)
    /\ GetKey(gmlNow, name, TargetOfCall(call.op)).DefaultValue # ""

\* C14 (as claimed): a graph-, node- or edge-scoped key with a stored default
\* substitutes that default for NotAValue: the Add* call succeeds and
\* GetAttributes of the element maps the name to the default value; and an
\* Add* call that gives a value of the key's type for the name yields that
\* value.
C14_ScopedDefaultSubstituted ==
    [][\A name \in ClaimNames :
        /\ (/\ last'.op \in AddCalls
            /\ last'.op = "AddEdge" => last'.err # ErrEdgeExists
            /\ TakesScopedDefault(last', name)
            /\ \A other \in DOMAIN last'.attributes :
                TakesScopedDefault(last', other) \/ GivesValue(last', other))
           => (/\ last'.err = NoError
               /\ last'.ret # ""
               /\ CreatedAttributes.err = NoError
               /\ name \in DOMAIN CreatedAttributes.attr
               /\ CreatedAttributes.attr[name] =
                    [kind |-> KindOfType(GetKey(gmlNow, name, TargetOfCall(last'.op)).KeyType),
                     str |-> GetKey(gmlNow, name, TargetOfCall(last'.op)).DefaultValue])
        /\ (/\ last'.op \in AddCalls
            /\ last'.err = NoError
            /\ GivesValue(last', name)
            /\ GetKey(gmlNow, name, TargetOfCall(last'.op)).Target = TargetOfCall(last'.op)
            /\ GetKey(gmlNow, name, TargetOfCall(last'.op)).DefaultValue # ""
            /\ \A other \in DOMAIN last'.attributes : GivesValue(last', other))
           => (/\ CreatedAttributes.err = NoError
               /\ name \in DOMAIN CreatedAttributes.attr
               /\ CreatedAttributes.attr[name] = last'.attributes[name])]_vars

\* The elements of the document gml: the Data list and the kind of the root,
\* of each graph, of each node and of each edge.
Element(data, target) == [data |-> data, target |-> target]
ElementsOfGraph(graph) ==
    {Element(graph.Data, KeyForGraph)}
        \cup {Element(graph.Nodes[n].Data, KeyForNode) : n \in 1..Len(graph.Nodes)}
        \cup {Element(graph.Edges[e].Data, KeyForEdge) : e \in 1..Len(graph.Edges)}
Elements(gml) ==
    {Element(gml.Data, KeyForGraphML)}
        \cup UNION {ElementsOfGraph(gml.Graphs[g]) : g \in 1..Len(gml.Graphs)}

\* C15 (as claimed): for an element of kind S and every listed key of scope S
\* or "all" with a stored default, when the element holds no Data record for
\* that key, GetAttributes of the element maps the key's name to the key's
\* parsed default value.
C15_GapFilling ==
    \A el \in Elements(gmlNow) : \A k \in ListedKeys :
        (/\ k.Target \in {el.target, KeyForAll}
         /\ k.DefaultValue # ""
         /\ \A d \in 1..Len(el.data) : el.data[d].madeFor # k.ptr)
        => (/\ attributesForData(el.data, el.target, gmlNow).err = NoError
            /\ k.Name \in DOMAIN attributesForData(el.data, el.target, gmlNow).attr
            /\ attributesForData(el.data, el.target, gmlNow).attr[k.Name] =
                    [kind |-> KindOfType(k.KeyType), str |-> k.DefaultValue])

(***************************************************************************)
(* SpecGiven: keys with and without default, none removed, and elements    *)
(* created with values only.                                               *)
(***************************************************************************)
GivenInputs ==
    [targets |-> {KeyForAll, KeyForNode},
     names |-> {"a", "b"},
     kinds |-> {"Float64"},
     defaults |-> {NotAValue, [kind |-> "Float64", str |-> "1"]},
     values |-> {[kind |-> "Float64", str |-> "2.5"], [kind |-> "String", str |-> ""]},
     directions |-> {EdgeDirectionDirected},
     edgeDirections |-> {EdgeDirectionDefault},
     maxAllocated |-> MaxGivenKeys, maxGraphs |-> 1, maxNodes |-> 1, maxEdges |-> 1, maxElements |-> 3]

InitGiven == InitOf(GivenInputs)

NextGiven ==
    \/ DoRegisterKey(GivenInputs)
    \/ DoAddGraph(GivenInputs)
    \/ DoAddNode(GivenInputs)
    \/ DoAddEdge(GivenInputs)

SpecGiven == InitGiven /\ [][NextGiven]_vars

\* Whether the call gives for the name a value of exactly the Go type that
\* GetAttributes returns for the type of the key of the name (the key found,
\* or the key registered for the value).
GivesExactValue(call, name) ==
    /\ GivesValue(call, name)
    /\ IF GetKey(gmlNow, name, TargetOfCall(call.op)) = NilKey
        THEN KindOfType(typeNameForKind(call.attributes[name].kind).type) = call.attributes[name].kind
        ELSE KindOfType(GetKey(gmlNow, name, TargetOfCall(call.op)).KeyType) = call.attributes[name].kind

\* Whether value is the default of a listed key of gml with the name, for the
\* elements of kind target, that gap-filling lists: the key has a stored
\* default, or is of type string.
GapFilled(gml, target, name, value) ==
    \E i \in 1..Len(gml.Keys) :
        /\ gml.Keys[i].Name = name
        /\ gml.Keys[i].Target \in {target, KeyForAll}
        /\ gml.Keys[i].DefaultValue # "" \/ gml.Keys[i].KeyType = StringType
        /\ value = [kind |-> KindOfType(gml.Keys[i].KeyType), str |-> gml.Keys[i].DefaultValue]

\* Whether GetAttributes returned after what it returned before: the same
\* failure, or a map with every name of before under the same value.
Extends(before, after) ==
    /\ after.err = before.err
    /\ \A name \in DOMAIN before.attr :
        name \in DOMAIN after.attr /\ after.attr[name] = before.attr[name]

\* The elements of the document: the root, and each graph, node and edge by
\* its position.
Locations(gml) ==
    {<<0, KeyForGraphML, 0>>}
    \cup {<<g, KeyForGraph, 0>> : g \in 1..Len(gml.Graphs)}
    \cup UNION {{<<g, KeyForNode, n>> : n \in 1..Len(gml.Graphs[g].Nodes)} : g \in 1..Len(gml.Graphs)}
    \cup UNION {{<<g, KeyForEdge, e>> : e \in 1..Len(gml.Graphs[g].Edges)} : g \in 1..Len(gml.Graphs)}

\* GetAttributes of the element at a location.
GetAttributesAt(gml, loc) ==
    CASE loc[2] = KeyForGraphML -> GetAttributesGraphML(gml)
      [] loc[2] = KeyForGraph -> GetAttributesGraph(gml, loc[1])
      [] loc[2] = KeyForNode -> GetAttributesNode(gml, loc[1], loc[3])
      [] loc[2] = KeyForEdge -> GetAttributesEdge(gml, loc[1], loc[3])

\* C16 (as claimed): GetAttributes of an element created with an attribute
\* map A without NotAValue (of values their keys accept) returns exactly A,
\* when the element is created and after every further RegisterKey, AddGraph,
\* AddNode and AddEdge, as long as no key is removed.
C16_AttributesAsGiven ==
    [][(allocated' = Len(Keys')) =>
        /\ (last.op = "NewGraphMLWithAttributes")
            => GetAttributesGraphML(gmlNow) = Attributes(last.attributes, NoError)
        /\ (/\ last'.op \in AddCalls
            /\ last'.err = NoError
            /\ \A name \in DOMAIN last'.attributes : GivesExactValue(last', name))
           => CreatedAttributes = Attributes(last'.attributes, NoError)
        /\ (last'.op \in AddCalls \cup {"RegisterKey"}) =>
            \A loc \in Locations(gmlNow) :
                GetAttributesAt(gmlNext, loc) = GetAttributesAt(gmlNow, loc)]_vars

\* C16 (corrected): GetAttributes of an element created with an attribute map
\* A without NotAValue, of values of exactly the Go types of their keys,
\* returns a map that has every name of A with the value given, and otherwise
\* only names gap-filling lists (the default of an applicable key that has a
\* stored default or is of type string); every further RegisterKey, AddGraph,
\* AddNode and AddEdge keeps each name of the map of each element with its
\* value, as long as no key is removed.
C16_AttributesContainGiven ==
    [][(allocated' = Len(Keys')) =>
        /\ (last.op = "NewGraphMLWithAttributes")
            => GetAttributesGraphML(gmlNow) = Attributes(last.attributes, NoError)
        /\ (/\ last'.op \in AddCalls
            /\ last'.err = NoError
            /\ \A name \in DOMAIN last'.attributes : GivesExactValue(last', name))
           => (/\ CreatedAttributes.err = NoError
               /\ \A name \in DOMAIN last'.attributes :
                    /\ name \in DOMAIN CreatedAttributes.attr
                    /\ CreatedAttributes.attr[name] = last'.attributes[name]
               /\ \A name \in DOMAIN CreatedAttributes.attr \ DOMAIN last'.attributes :
                    GapFilled(gmlNext, TargetOfCall(last'.op), name, CreatedAttributes.attr[name]))
        /\ (last'.op \in AddCalls \cup {"RegisterKey"}) =>
            \A loc \in Locations(gmlNow) :
                Extends(GetAttributesAt(gmlNow, loc), GetAttributesAt(gmlNext, loc))]_vars

\* C16 witness: a node was just created with {a: 2.5} while a key b with the
\* default 1 applies to nodes, and GetAttributes of the node returns
\* {a: 2.5, b: 1}.
C16_Witness ==
    /\ last.op = "AddNode" /\ last.err = NoError
    /\ allocated = Len(Keys)
    /\ last.attributes = [name \in {"a"} |-> [kind |-> "Float64", str |-> "2.5"]]
    /\ GetAttributesNode(gmlNow, last.gr, Len(Graphs[last.gr].Nodes)) =
        Attributes([name \in {"a", "b"} |->
                        IF name = "a" THEN [kind |-> "Float64", str |-> "2.5"]
                        ELSE [kind |-> "Float64", str |-> "1"]], NoError)

(***************************************************************************)
(* SpecRoundTrip: a document is built, with keys of every scope value the  *)
(* calls accept, then written and read back into a fresh document.         *)
(***************************************************************************)
RoundTripInputs ==
    [targets |-> {"", KeyForAll, KeyForNode},
     names |-> {"a", "b"},
     kinds |-> {"Float64"},
     defaults |-> {NotAValue, [kind |-> "Float64", str |-> "1"]},
     values |-> {[kind |-> "Float64", str |-> "2.5"]},
     directions |-> {EdgeDirectionDirected},
     edgeDirections |-> {EdgeDirectionDefault},
     maxAllocated |-> MaxRoundTripKeys, maxGraphs |-> 1, maxNodes |-> 1, maxEdges |-> 1, maxElements |-> 3]

InitRoundTrip == InitOf(RoundTripInputs)

\* The calls that build the document are made before it is written.
NextRoundTrip ==
    \/ last.op # "Decode" /\ DoRegisterKey(RoundTripInputs)
    \/ last.op # "Decode" /\ DoRemoveKey(RoundTripInputs)
    \/ last.op # "Decode" /\ DoAddGraph(RoundTripInputs)
    \/ last.op # "Decode" /\ DoAddNode(RoundTripInputs)
    \/ last.op # "Decode" /\ DoAddEdge(RoundTripInputs)
    \/ DoEncodeDecode(RoundTripInputs)

SpecRoundTrip == InitRoundTrip /\ [][NextRoundTrip]_vars

\* C17: decoding the encoding of a document built by the building calls
\* into a fresh document gives a document with the same elements, where
\* GetAttributes of the document and of every graph, node and edge returns
\* what it returned on the original: the same map, or the same failure.
C17_RoundTrip ==
    [][(last'.op = "Decode" /\ last'.r = Encode(gmlNow) /\ last'.err = NoError) =>
        /\ Locations(gmlNext) = Locations(gmlNow)
        /\ \A loc \in Locations(gmlNow) :
            GetAttributesAt(gmlNext, loc) = GetAttributesAt(gmlNow, loc)]_vars

\* Whether every key of the key list is found through keysById under its id
\* and through keysByIdentifier under its name and scope.
KeysIndexed(gml) ==
    \A i \in 1..Len(gml.Keys) :
        /\ gml.Keys[i].ID \in DOMAIN gml.keysById
        /\ gml.keysById[gml.Keys[i].ID] = gml.Keys[i]
        /\ keyIdentifier(gml.Keys[i].Name, gml.Keys[i].Target) \in DOMAIN gml.keysByIdentifier
        /\ gml.keysByIdentifier[keyIdentifier(gml.Keys[i].Name, gml.Keys[i].Target)] = gml.Keys[i]

\* Whether GetNode and GetEdge of the graph in slot gr return each of its
\* nodes and edges, its direction flag is that of its edgedefault, and the
\* graph, its nodes and its edges hold their back-references.
GraphIndexed(gml, gr) ==
    /\ \A n \in 1..Len(gml.Graphs[gr].Nodes) :
        /\ GetNode(gml.Graphs[gr], gml.Graphs[gr].Nodes[n].ID) = n
        /\ gml.Graphs[gr].Nodes[n].graph = gr
    /\ \A e \in 1..Len(gml.Graphs[gr].Edges) :
        /\ GetEdge(gml.Graphs[gr], gml.Graphs[gr].Edges[e].Source, gml.Graphs[gr].Edges[e].Target) = e
        /\ gml.Graphs[gr].Edges[e].graph = gr
    /\ gml.Graphs[gr].edgesDirection = EdgeDirectionDirected
            <=> gml.Graphs[gr].EdgeDefault = edgeDirectionDirected
    /\ gml.Graphs[gr].edgesDirection = EdgeDirectionUndirected
            <=> gml.Graphs[gr].EdgeDefault = edgeDirectionUndirected
    /\ gml.Graphs[gr].parent

\* C18: after a successful Decode into a fresh document every key of the key
\* list is found through the key-by-id index and the scoped-name index, every
\* node by GetNode and every edge by GetEdge of its graph, the direction flag
\* of every graph matches its edgedefault, and every graph, node and edge
\* holds its back-reference.
C18_IndexesRebuilt ==
    (last.op = "Decode" /\ last.err = NoError) =>
        /\ KeysIndexed(gmlNow)
        /\ \A gr \in 1..Len(Graphs) : GraphIndexed(gmlNow, gr)

(***************************************************************************)
(* SpecDecode: a document of NewGraphMLWithDefaultKeyType reads a stream:  *)
(* one or two keys, with and without scope, type and default, and a graph  *)
(* of one node with at most one Data record.                               *)
(***************************************************************************)
\* An attribute that occurs (<<text>>) or not (<<>>) in an element read.
optionalAttr(attrs, name, occurs) == IF occurs = <<>> THEN attrs ELSE MapPut(attrs, name, occurs[1])

\* A key element read.
ReadKey(id, name, for, type, default) ==
    [attrs |-> optionalAttr(optionalAttr(MapPut(MapPut(EmptyMap, "id", id), "attr.name", name),
                                         "for", for), "attr.type", type),
     default |-> default]

\* A data element read.
ReadData(key, chardata) == [attrs |-> MapPut(EmptyMap, "key", key), chardata |-> chardata]

\* A graphml element read: the keys, and the graph g0 with the node n0.
ReadDocument(name, keys, data) ==
    [name |-> name, keys |-> keys, data |-> <<>>,
     graphs |-> <<[attrs |-> MapPut(MapPut(EmptyMap, "id", "g0"), "edgedefault", edgeDirectionDirected),
                   nodes |-> <<[attrs |-> MapPut(EmptyMap, "id", "n0"), data |-> data]>>,
                   edges |-> <<>>, data |-> <<>>]>>]

FirstKeysRead ==
    {ReadKey("d0", "a", for, type, default) :
        for \in {<<>>, <<"">>, <<KeyForNode>>, <<KeyForAll>>},
        type \in {<<>>, <<"">>, <<IntType>>, <<StringType>>},
        default \in {<<>>, <<"7">>}}

SecondKeysRead ==
    {ReadKey("d1", name, for, <<StringType>>, <<>>) : name \in {"a", "b"}, for \in {<<>>, <<KeyForNode>>}}

KeyListsRead ==
    {<<k>> : k \in FirstKeysRead} \cup {<<k, l>> : k \in FirstKeysRead, l \in SecondKeysRead}

DataListsRead == {<<>>} \cup {<<ReadData("d0", chardata)>> : chardata \in {"", "7", "x"}}

DecodeInputs ==
    [readers |-> {ReadDocument("graphml", keys, data) : keys \in KeyListsRead, data \in DataListsRead}
                    \cup {ReadDocument("graph", <<>>, <<>>)},
     keyTypes |-> {"", StringType, IntType},
     maxAllocated |-> MaxKeysRead]

InitDecode ==
    \E keyTypeDef \in DecodeInputs.keyTypes :
        Constructed(DecodeInputs, Returned(NewGraphMLWithDefaultKeyType(keyTypeDef), NilKey, "", NoError),
                    Call("NewGraphMLWithDefaultKeyType"))

NextDecode == DoDecode(DecodeInputs)

SpecDecode == InitDecode /\ [][NextDecode]_vars

\* The Data records of the element at a location.
DataAt(gml, loc) ==
    CASE loc[2] = KeyForGraphML -> gml.Data
      [] loc[2] = KeyForGraph -> gml.Graphs[loc[1]].Data
      [] loc[2] = KeyForNode -> gml.Graphs[loc[1]].Nodes[loc[3]].Data
      [] loc[2] = KeyForEdge -> gml.Graphs[loc[1]].Edges[loc[3]].Data

\* Whether GetAttributes of every element that holds a Data record of the
\* key, if it returns a map, maps the name of the key to a value of the
\* Go type of keyType.
ResolvesAs(gml, key, keyType) ==
    \A loc \in Locations(gml) :
        (/\ \E d \in 1..Len(DataAt(gml, loc)) : DataAt(gml, loc)[d].Key = key.ID
         /\ GetAttributesAt(gml, loc).err = NoError)
        => (/\ key.Name \in DOMAIN GetAttributesAt(gml, loc).attr
            /\ GetAttributesAt(gml, loc).attr[key.Name].kind = KindOfType(keyType))

\* The step is a successful Decode into a fresh document.
DecodedFresh ==
    /\ last'.op = "Decode" /\ last'.err = NoError
    /\ Keys = <<>> /\ Data = <<>> /\ Graphs = <<>>

\* C19 (as claimed): on Decode a key read with no scope gets the scope "all"
\* and is found by GetKey(name, s) for every scope s; a key read with no type
\* gets the default key type of the document, and its Data values resolve as
\* values of that type; a key read with a scope or a type keeps it.
C19_KeyDefaulting ==
    [][DecodedFresh =>
        \A i \in 1..Len(last'.r.keys) :
            /\ attrValue(last'.r.keys[i].attrs, "for") = ""
                => (/\ Keys'[i].Target = KeyForAll
                    /\ \A s \in AllTargets : GetKey(gmlNext, Keys'[i].Name, s) = Keys'[i])
            /\ attrValue(last'.r.keys[i].attrs, "for") # ""
                => Keys'[i].Target = attrValue(last'.r.keys[i].attrs, "for")
            /\ attrValue(last'.r.keys[i].attrs, "attr.type") = ""
                => (/\ Keys'[i].KeyType = keyTypeDefault
                    /\ ResolvesAs(gmlNext, Keys'[i], keyTypeDefault))
            /\ attrValue(last'.r.keys[i].attrs, "attr.type") # ""
                => Keys'[i].KeyType = attrValue(last'.r.keys[i].attrs, "attr.type")]_vars

\* C19 (corrected): on Decode a key read with no scope gets the scope "all",
\* and is found by GetKey(name, s) for every scope s when no other key of
\* its name was read; a key read with no type gets the default key type of
\* the document, and its Data values resolve as values of that type; a key
\* read with a scope or a type keeps it.
C19_KeyDefaultingOfUniqueNames ==
    [][DecodedFresh =>
        \A i \in 1..Len(last'.r.keys) :
            /\ attrValue(last'.r.keys[i].attrs, "for") = ""
                => (/\ Keys'[i].Target = KeyForAll
                    /\ (\A j \in 1..Len(Keys') : j # i => Keys'[j].Name # Keys'[i].Name)
                        => \A s \in AllTargets : GetKey(gmlNext, Keys'[i].Name, s) = Keys'[i])
            /\ attrValue(last'.r.keys[i].attrs, "for") # ""
                => Keys'[i].Target = attrValue(last'.r.keys[i].attrs, "for")
            /\ attrValue(last'.r.keys[i].attrs, "attr.type") = ""
                => (/\ Keys'[i].KeyType = keyTypeDefault
                    /\ ResolvesAs(gmlNext, Keys'[i], keyTypeDefault))
            /\ attrValue(last'.r.keys[i].attrs, "attr.type") # ""
                => Keys'[i].KeyType = attrValue(last'.r.keys[i].attrs, "attr.type")]_vars

\* C19 witness: a document with the default key type int has read a key
\* with neither scope nor type and a node with a Data record of the key;
\* the key is of scope "all" and type int, GetKey finds it for nodes, and
\* GetAttributes of the node returns the int 7.
C19_Witness ==
    /\ last.op = "Decode" /\ last.err = NoError
    /\ keyTypeDefault = IntType
    /\ Len(Keys) = 1
    /\ DOMAIN last.r.keys[1].attrs = {"id", "attr.name"}
    /\ Keys[1].Target = KeyForAll /\ Keys[1].KeyType = IntType
    /\ GetKey(gmlNow, "a", KeyForNode) = Keys[1]
    /\ Graphs[1].Nodes[1].Data # <<>>
    /\ GetAttributesNode(gmlNow, 1, 1) =
            Attributes([name \in {"a"} |-> [kind |-> "Int", str |-> "7"]], NoError)

\* What a Data record resolves to when text is the string taken for it: the
\* no-value-no-default failure when there is none and the type of the key is
\* not string, otherwise the text parsed by the type of the key.
ResolvedFrom(gml, rec, key, text) ==
    IF rec.Value = "" /\ key.DefaultValue = "" /\ key.KeyType # StringType
        THEN [value |-> NotAValue, err |-> ErrNoValueNoDefault]
    ELSE valueByType(text, key.KeyType, gml.keyTypeDefault)

\* The resolution with the default of the key taken for every empty value.
ResolvedByDefault(gml, rec) ==
    ResolvedFrom(gml, rec, gml.keysById[rec.Key],
                 IF rec.Value # "" THEN rec.Value ELSE gml.keysById[rec.Key].DefaultValue)

\* The resolution with the default of the key taken for the empty values of
\* the keys that are not of type string.
ResolvedByType(gml, rec) ==
    ResolvedFrom(gml, rec, gml.keysById[rec.Key],
                 IF rec.Value # "" \/ gml.keysById[rec.Key].KeyType = StringType
                    THEN rec.Value ELSE gml.keysById[rec.Key].DefaultValue)

\* Whether GetAttributes returned (got) what the resolution of each record
\* of data gives (resolved[d] for the record d): the failure of the first
\* record that fails, otherwise a map with, under the name of the key of
\* each record, the value of the last record of that name.
ReturnsResolved(gml, data, resolved, got) ==
    /\ (\A d \in 1..Len(data) : resolved[d].err = NoError)
        => (/\ got.err = NoError
            /\ \A d \in 1..Len(data) :
                (\A e \in (d + 1)..Len(data) :
                        gml.keysById[data[e].Key].Name # gml.keysById[data[d].Key].Name)
                => (/\ gml.keysById[data[d].Key].Name \in DOMAIN got.attr
                    /\ got.attr[gml.keysById[data[d].Key].Name] = resolved[d].value))
    /\ \A d \in 1..Len(data) :
        (resolved[d].err # NoError /\ \A e \in 1..(d - 1) : resolved[e].err = NoError)
            => got.err = resolved[d].err

\* The elements whose Data records all refer to a key of keysById.
LocationsOfKnownKeys(gml) ==
    {loc \in Locations(gml) :
        \A d \in 1..Len(DataAt(gml, loc)) : DataAt(gml, loc)[d].Key \in DOMAIN gml.keysById}

\* C20 (as claimed): GetAttributes resolves each Data record to its own
\* value when that is not empty, otherwise to the default of its key when
\* that is not empty, otherwise fails with the no-value-no-default error
\* when the type of the key is not string, and resolves to the empty string
\* when it is.
C20_DataResolution ==
    \A loc \in LocationsOfKnownKeys(gmlNow) :
        ReturnsResolved(gmlNow, DataAt(gmlNow, loc),
                        [d \in 1..Len(DataAt(gmlNow, loc)) |-> ResolvedByDefault(gmlNow, DataAt(gmlNow, loc)[d])],
                        GetAttributesAt(gmlNow, loc))

\* C20 (corrected): GetAttributes resolves each Data record of a key of type
\* string to its own value, empty or not; a Data record of a key of another
\* type to its own value when that is not empty, otherwise to the default of
\* its key when that is not empty, and otherwise fails with the
\* no-value-no-default error.
C20_DataResolutionByType ==
    \A loc \in LocationsOfKnownKeys(gmlNow) :
        ReturnsResolved(gmlNow, DataAt(gmlNow, loc),
                        [d \in 1..Len(DataAt(gmlNow, loc)) |-> ResolvedByType(gmlNow, DataAt(gmlNow, loc)[d])],
                        GetAttributesAt(gmlNow, loc))

\* C20 witness: a document has read a key of type int with the default 7 and
\* a node whose Data record of the key is empty, and GetAttributes of the
\* node returns the default.
C20_Witness ==
    /\ last.op = "Decode" /\ last.err = NoError
    /\ Len(Keys) = 1 /\ Keys[1].KeyType = IntType /\ Keys[1].DefaultValue = "7"
    /\ Graphs[1].Nodes[1].Data = <<[ID |-> "", Key |-> Keys[1].ID, Value |-> "", madeFor |-> NilKey.ptr]>>
    /\ GetAttributesNode(gmlNow, 1, 1) =
            Attributes([name \in {"a"} |-> [kind |-> "Int", str |-> "7"]], NoError)

\* C21: RemoveKey of a key that is not in the key list of the document, as
\* when the same key is removed a second time, returns the key-not-found
\* error and changes nothing in the document.
C21_RemoveAbsentKey ==
    [][(/\ last'.op = "RemoveKey"
        /\ \A i \in 1..Len(Keys) : Keys[i].ptr # last'.key.ptr)
       => (/\ last'.err = ErrKeyNotFound
           /\ gmlNext = gmlNow)]_vars

\* C21 witness: the key removed by the call before was removed again, while
\* the document holds another key, and the call returned key-not-found.
C21_Witness ==
    /\ last.op = "RemoveKey"
    /\ last.err = ErrKeyNotFound
    /\ last.key # NilKey
    /\ Keys # <<>>
    /\ \A i \in 1..Len(Keys) : Keys[i].ptr # last.key.ptr

(***************************************************************************)
(* SpecImplicit: elements created with values of the six supported Go      *)
(* types, under names with and without a registered key.                   *)
(***************************************************************************)
ImplicitInputs ==
    [targets |-> {KeyForAll},
     names |-> {"a", "b"},
     kinds |-> {"Int"},
     defaults |-> {NotAValue},
     values |-> {[kind |-> "Bool", str |-> "true"], [kind |-> "Int", str |-> "7"],
                 [kind |-> "Int64", str |-> "8"], [kind |-> "Float32", str |-> "1.5"],
                 [kind |-> "Float64", str |-> "2.5"], [kind |-> "String", str |-> "x"]},
     directions |-> {EdgeDirectionDirected},
     edgeDirections |-> {EdgeDirectionDefault},
     maxAllocated |-> MaxImplicitKeys, maxGraphs |-> 1, maxNodes |-> 2, maxEdges |-> 1, maxElements |-> 3]

InitImplicit == InitOf(ImplicitInputs)

NextImplicit ==
    \/ DoRegisterKey(ImplicitInputs)
    \/ DoRemoveKey(ImplicitInputs)
    \/ DoAddGraph(ImplicitInputs)
    \/ DoAddNode(ImplicitInputs)
    \/ DoAddEdge(ImplicitInputs)

SpecImplicit == InitImplicit /\ [][NextImplicit]_vars

\* The wire type of a value of each supported Go type.
WireTypeOf ==
    [Bool |-> BooleanType, Int |-> IntType, Int64 |-> LongType,
     Float32 |-> FloatType, Float64 |-> DoubleType, String |-> StringType]

\* The keys of gml with the name that were registered after count keys were.
KeysRegisteredSince(gml, count, name) ==
    {gml.Keys[i] : i \in {j \in 1..Len(gml.Keys) : gml.Keys[j].ptr >= count /\ gml.Keys[j].Name = name}}

\* Whether exactly one key was registered for the name since count keys
\* were, with the scope target and the wire type of the value.
OneKeyRegistered(gml, count, name, target, value) ==
    /\ Cardinality({i \in 1..Len(gml.Keys) : gml.Keys[i].ptr >= count /\ gml.Keys[i].Name = name}) = 1
    /\ \A key \in KeysRegisteredSince(gml, count, name) :
        key.Target = target /\ key.KeyType = WireTypeOf[value.kind]

\* C22: adding an element of kind S with an attribute name that resolves to
\* no key registers exactly one new key with scope S, that name and the wire
\* type inferred from the value; when the name resolves to a key for S or
\* for "all", no key is created and the Data record is made for that key.
C22_ImplicitRegistration ==
    [][/\ (last.op = "NewGraphMLWithAttributes")
            => \A name \in DOMAIN last.attributes :
                (last.attributes[name].kind \in DOMAIN WireTypeOf)
                    => OneKeyRegistered(gmlNow, 0, name, KeyForGraphML, last.attributes[name])
       /\ (last'.op \in AddCalls /\ last'.err = NoError)
            => \A name \in DOMAIN last'.attributes :
                IF GetKey(gmlNow, name, TargetOfCall(last'.op)) = NilKey
                    THEN (last'.attributes[name].kind \in DOMAIN WireTypeOf)
                            => OneKeyRegistered(gmlNext, allocated, name, TargetOfCall(last'.op),
                                                last'.attributes[name])
                    ELSE /\ KeysRegisteredSince(gmlNext, allocated, name) = {}
                         /\ \E d \in 1..Len(CreatedData) :
                                CreatedData[d].madeFor = GetKey(gmlNow, name, TargetOfCall(last'.op)).ptr]_vars

\* C22 witness: a second node was added with {a: int 7, b: int64 8} while
\* the keys were a for all elements and b for nodes, of type long, which the
\* first node had registered with its Data: the call registered no key, and
\* the Data of the second node are made for the key for all elements and
\* for the key for nodes.
C22_Witness ==
    /\ last.op = "AddNode" /\ last.err = NoError
    /\ last.attributes = [name \in {"a", "b"} |->
            IF name = "a" THEN [kind |-> "Int", str |-> "7"] ELSE [kind |-> "Int64", str |-> "8"]]
    /\ Len(Keys) = 2 /\ allocated = 2
    /\ Keys[1].Name = "a" /\ Keys[1].Target = KeyForAll
    /\ Keys[2].Name = "b" /\ Keys[2].Target = KeyForNode /\ Keys[2].KeyType = LongType
    /\ Len(Graphs[last.gr].Nodes) = 2
    /\ \E d \in 1..Len(Graphs[last.gr].Nodes[1].Data) :
        Graphs[last.gr].Nodes[1].Data[d].madeFor = Keys[2].ptr
    /\ Len(Graphs[last.gr].Nodes[2].Data) = 2
    /\ Graphs[last.gr].Nodes[2].Data[1].madeFor = Keys[1].ptr
    /\ Graphs[last.gr].Nodes[2].Data[2].madeFor = Keys[2].ptr

\* The edge the last AddEdge call returned.
CreatedEdge == Graphs'[last'.gr].Edges[Len(Graphs'[last'.gr].Edges)]

\* C23: for every edge AddEdge returns, SourceNode returns the node passed
\* as source and TargetNode the node passed as target, and neither returns
\* nil, whichever nodes of the document were passed.
C23_EdgeEndpoints ==
    [][(last'.op = "AddEdge" /\ last'.err = NoError) =>
        /\ SourceNode(gmlNext, CreatedEdge) # NilNode
        /\ SourceNode(gmlNext, CreatedEdge).graph = last'.sourceGraph
        /\ SourceNode(gmlNext, CreatedEdge).ID = last'.source
        /\ TargetNode(gmlNext, CreatedEdge) # NilNode
        /\ TargetNode(gmlNext, CreatedEdge).graph = last'.destGraph
        /\ TargetNode(gmlNext, CreatedEdge).ID = last'.dest]_vars

\* C24: every Data record created when an element is given attributes has
\* an identifier d<n>, counted from 0 in the Data list of its element.
C24_DataIds ==
    [][/\ (last.op = "NewGraphMLWithAttributes")
            => \A d \in 1..Len(Data) : Data[d].ID = "d" \o ToString(d - 1)
       /\ (last'.op \in AddCalls /\ last'.err = NoError)
            => \A d \in 1..Len(CreatedData) : CreatedData[d].ID = "d" \o ToString(d - 1)]_vars

\* The name of the key a Data record of the document gml was made for.
NameOfData(gml, rec) ==
    (CHOOSE key \in {gml.Keys[i] : i \in 1..Len(gml.Keys)} : key.ptr = rec.madeFor).Name

\* Whether the call had the same outcome (document, Data list and error) for
\* every order in which the names of its map can be iterated, and its Data
\* list is in the lexicographic order of the attribute names.
OrderedByName(gml, attributes, target, made, data) ==
    /\ \A names \in RangeOrders(attributes) :
        createDataLoop(gml, sortStrings(names), attributes, target, <<>>)
            = createDataAttributes(gml, attributes, target)
    /\ Len(data) = Cardinality(DOMAIN attributes)
    /\ \A d \in 1..Len(data) : NameOfData(made, data[d]) \in DOMAIN attributes
    /\ \A d, e \in 1..Len(data) : d < e => StringLess(NameOfData(made, data[d]), NameOfData(made, data[e]))

\* Whether the keys of gml registered after count keys were are listed in
\* the lexicographic order of their names.
RegisteredByName(gml, count) ==
    \A i, j \in 1..Len(gml.Keys) :
        (i < j /\ gml.Keys[i].ptr >= count /\ gml.Keys[j].ptr >= count)
            => StringLess(gml.Keys[i].Name, gml.Keys[j].Name)

\* C25: within one NewGraphMLWithAttributes, AddGraph, AddNode or AddEdge
\* call the attribute names are processed in lexicographic order whatever
\* the iteration order of the map: the Data list is ordered by attribute
\* name, the keys registered by the call are listed (and numbered) in the
\* lexicographic order of their names, and the outcome of the call is the
\* same for every iteration order.
C25_LexicographicOrder ==
    [][/\ (last.op = "NewGraphMLWithAttributes")
            => /\ OrderedByName(NewGraphML, last.attributes, KeyForGraphML, gmlNow, Data)
               /\ RegisteredByName(gmlNow, 0)
       /\ (last'.op \in AddCalls /\ last'.err = NoError)
            => /\ OrderedByName(gmlNow, last'.attributes, TargetOfCall(last'.op), gmlNext, CreatedData)
               /\ RegisteredByName(gmlNext, allocated)]_vars

\* C25 witness: a graph was added with the attributes a and b, neither with
\* a key before: the keys a and b were registered in this order and the Data
\* list of the graph holds the record of a, then that of b.
C25_Witness ==
    /\ last.op = "AddGraph" /\ last.err = NoError
    /\ DOMAIN last.attributes = {"a", "b"}
    /\ Len(Keys) = 2 /\ Keys[1].Name = "a" /\ Keys[2].Name = "b"
    /\ Keys[1].Target = KeyForGraph /\ Keys[2].Target = KeyForGraph
    /\ Len(Graphs[1].Data) = 2
    /\ Graphs[1].Data[1].madeFor = Keys[1].ptr
    /\ Graphs[1].Data[2].madeFor = Keys[2].ptr

\* C26: AddNode and AddEdge on a graph reach the owning document through
\* the back-reference of the graph only to look keys up: a call of either
\* leaves the key list and both key indexes of the document as they were.
\* (GetAttributes reads the document and assigns nothing.)
C26_BackReferencesOnlyRead ==
    [][(last'.op \in {"AddNode", "AddEdge"})
        => /\ Keys' = Keys
           /\ keysByIdentifier' = keysByIdentifier
           /\ keysById' = keysById]_vars

\* The keys that the step has put behind the keys listed before.
AppendedKeys == {Keys'[i] : i \in (Len(Keys) + 1)..Len(Keys')}

\* Whether the index keysByIdentifier after the step is the index before
\* it, but for the entries of the appended keys.
OnlyGainedByIdentifier ==
    /\ DOMAIN keysByIdentifier \subseteq DOMAIN keysByIdentifier'
    /\ \A x \in DOMAIN keysByIdentifier' :
        \/ \E key \in AppendedKeys :
            x = keyIdentifier(key.Name, key.Target) /\ keysByIdentifier'[x] = key
        \/ x \in DOMAIN keysByIdentifier /\ keysByIdentifier'[x] = keysByIdentifier[x]

\* The same of the index keysById.
OnlyGainedById ==
    /\ DOMAIN keysById \subseteq DOMAIN keysById'
    /\ \A x \in DOMAIN keysById' :
        \/ \E key \in AppendedKeys : x = key.ID /\ keysById'[x] = key
        \/ x \in DOMAIN keysById /\ keysById'[x] = keysById[x]

\* C26 (amended): AddNode and AddEdge reach the owning document through the
\* back-reference of the graph to look keys up and to register the keys of
\* the attribute names that have none: a call of either leaves every listed
\* key at its place in the key list, appends only keys of its own target for
\* names of its attribute map that GetKey did not resolve, and changes the
\* two key indexes only by the entries of the keys it appended.
C26_BackReferencesOnlyAppend ==
    [][(last'.op \in {"AddNode", "AddEdge"})
        => /\ Len(Keys') >= Len(Keys)
           /\ SubSeq(Keys', 1, Len(Keys)) = Keys
           /\ \A key \in AppendedKeys :
                /\ key.Target = TargetOfCall(last'.op)
                /\ key.Name \in DOMAIN last'.attributes
                /\ GetKey(gmlNow, key.Name, key.Target) = NilKey
           /\ OnlyGainedByIdentifier
           /\ OnlyGainedById]_vars

\* C26 witness: AddNode returned a node with an attribute whose key, for
\* nodes, was registered last, behind a key for all elements.
C26_Witness ==
    /\ last.op = "AddNode" /\ last.err = NoError
    /\ Len(Keys) = 2
    /\ Keys[1].Target = KeyForAll
    /\ Keys[2].Target = KeyForNode
    /\ Keys[2].Name \in DOMAIN last.attributes
    /\ Keys[2].ptr = allocated - 1
    /\ \E g \in 1..Len(Graphs) :
        /\ Len(Graphs[g].Nodes) = 1
        /\ \E d \in 1..Len(Graphs[g].Nodes[1].Data) : Graphs[g].Nodes[1].Data[d].madeFor = Keys[2].ptr

\* C27: in every state the ids of the keys of the key list are pairwise
\* distinct, and keysById maps the id of every listed key to that very key.
C27_KeyIdsDistinct ==
    /\ \A i, j \in 1..Len(Keys) : i # j => Keys[i].ID # Keys[j].ID
    /\ \A i \in 1..Len(Keys) :
        /\ Keys[i].ID \in DOMAIN keysById
        /\ keysById[Keys[i].ID] = Keys[i]

\* The entries of a key index that do not lead to the key.
EntriesOfOthers(index, key) == {x \in DOMAIN index : index[x].ptr # key.ptr}

\* The Data records of a list that were not created for the key.
DataOfOthers(data, key) == SelectSeq(data, LAMBDA rec : rec.madeFor # key.ptr)

\* C28: RemoveKey(K) that returns without error removes only K and the Data
\* records created for K: the other keys stay in the key list, the entries
\* of both indexes that lead to other keys stay, and on every element the
\* Data records created for other keys stay, with their values.
C28_RemoveKeyFrame ==
    [][(last'.op = "RemoveKey" /\ last'.err = NoError)
        => /\ Keys' = SelectSeq(Keys, LAMBDA key : key.ptr # last'.key.ptr)
           /\ \A x \in EntriesOfOthers(keysByIdentifier, last'.key) :
                x \in DOMAIN keysByIdentifier' /\ keysByIdentifier'[x] = keysByIdentifier[x]
           /\ \A x \in EntriesOfOthers(keysById, last'.key) :
                x \in DOMAIN keysById' /\ keysById'[x] = keysById[x]
           /\ \A loc \in Locations(gmlNow) :
                DataOfOthers(DataAt(gmlNext, loc), last'.key)
                    = DataOfOthers(DataAt(gmlNow, loc), last'.key)]_vars

\* C29: in every state every Data record of the document, of every graph,
\* node and edge refers to a key of the key list, which keysById resolves to
\* the key the record was created for, and GetAttributes of no element fails
\* with the error of a key id that keysById does not have.
C29_NoDanglingKey ==
    \A loc \in Locations(gmlNow) :
        /\ \A d \in 1..Len(DataAt(gmlNow, loc)) :
            /\ \E i \in 1..Len(Keys) :
                Keys[i].ID = DataAt(gmlNow, loc)[d].Key /\ Keys[i].ptr = DataAt(gmlNow, loc)[d].madeFor
            /\ DataAt(gmlNow, loc)[d].Key \in DOMAIN keysById
            /\ keysById[DataAt(gmlNow, loc)[d].Key].ptr = DataAt(gmlNow, loc)[d].madeFor
        /\ GetAttributesAt(gmlNow, loc).err # ErrDanglingKey

(***************************************************************************)
(* SpecTermination: Decode into a document whose default key type is       *)
(* empty, a type of GraphML or another string, of documents whose keys     *)
(* may have such a string for type.                                        *)
(***************************************************************************)
\* A key type that is none of the six of GraphML.
OtherType == "text"

TypedKeysRead ==
    {ReadKey("d0", "a", <<KeyForNode>>, type, default) :
        type \in {<<>>, <<"">>, <<IntType>>, <<StringType>>, <<OtherType>>},
        default \in {<<>>, <<"7">>}}

TerminationInputs ==
    [readers |-> {ReadDocument("graphml", keys, data) :
                    keys \in {<<k>> : k \in TypedKeysRead}
                        \cup {<<k, l>> : k \in TypedKeysRead, l \in SecondKeysRead},
                    data \in DataListsRead},
     keyTypes |-> {"", StringType, IntType, OtherType},
     maxAllocated |-> MaxKeysRead]

InitTermination ==
    \E keyTypeDef \in TerminationInputs.keyTypes :
        Constructed(TerminationInputs,
                    Returned(NewGraphMLWithDefaultKeyType(keyTypeDef), NilKey, "", NoError),
                    Call("NewGraphMLWithDefaultKeyType"))

NextTermination == DoDecode(TerminationInputs)

SpecTermination == InitTermination /\ [][NextTermination]_vars

\* C30: GetAttributes returns on every element of every document, whatever
\* the default key type of the document and the types of its keys: value
\* parsing falls back from a key type it does not know to the default key
\* type at most once.
C30_GetAttributesTerminates ==
    \A loc \in Locations(gmlNow) : GetAttributesAt(gmlNow, loc).err # StackOverflow

====
